---------------------------- MODULE Spec2Model ----------------------------
(***************************************************************************)
(* Market Seasonality Explorer: the analytics core of BinanceApiService    *)
(* (processKlineData, calculateTechnicalIndicators), its WebSocket         *)
(* connection management, and the alert evaluation of the                  *)
(* MarketSeasonalityExplorer component.                                    *)
(*                                                                         *)
(* Numbers.  A JavaScript number is modelled as a pair <<n, d>> with       *)
(* d >= 0 in lowest terms: d > 0 is the rational n/d, <<1,0>> is +Infinity,*)
(* <<-1,0>> is -Infinity and <<0,0>> is NaN.  Arithmetic follows IEEE-754  *)
(* on these values (x/0, 0/0, Infinity - Infinity, comparisons with NaN);  *)
(* rounding to 53 bits and the sign of zero are not modelled.              *)
(***************************************************************************)
EXTENDS Integers, Sequences, FiniteSets, TLC

VARIABLES
    \* ---- processKlineData (pure function, specification SpecKline)
    klineData,        \* the KlineData[] argument
    processed,        \* the returned ProcessedDayData[]
    klineDone,        \* TRUE once processKlineData has returned
    \* ---- calculateTechnicalIndicators (pure function, specification SpecInd)
    series,           \* the ProcessedDayData[] argument
    withInd,          \* the returned array
    indDone,          \* TRUE once calculateTechnicalIndicators has returned
    prefixLen,        \* the length of the shorter series of an earlier call:
                      \* series without its last records (NoPrefix: no call)
    withIndPrefix,    \* the array that earlier call returned
    \* ---- detectAllPatterns (pure function, specification SpecPat)
    patternData,      \* the ProcessedDayData[] argument of the calls
    detections,       \* the results of the calls made so far, in call order
    \* ---- getKlineData and getSymbols (specification SpecApi)
    requests,         \* the calls whose HTTP request is in flight, by name
    promises,         \* the promises of the calls that returned, in order
    \* ---- BinanceApiService WebSocket management (specification SpecWs)
    ws,               \* this.ws: a socket id, or NoSocket for null
    reconnectAttempts,\* this.reconnectAttempts
    sockets,          \* every WebSocket created so far, by id (creation order)
    timers,           \* pending setTimeout callbacks of ws.onclose
    delivered,        \* the handler that received the latest kline message
    scheduledInRow,   \* history: reconnects scheduled since the last onopen
    \* ---- MarketSeasonalityExplorer component (specifications Spec, SpecEval)
    alerts,           \* state: alerts, as of the latest render
    marketData,       \* state: marketData
    loading,          \* state: loading
    error,            \* state: error (NoError for null)
    pending,          \* state updates queued by callbacks, not yet rendered
    fetches,          \* getKlineData promises of loadMarketData still pending
    selected,         \* state: selectedSymbol and currentTimeframe.interval
    interval,         \* the checkAlerts interval of the alert effect: the
                      \* alerts and marketData its closure captured
    clock,            \* Date.now()
    created,          \* history: number of alerts created so far
    fires,            \* history: triggerAlert calls per alert since its
                      \* creation or last toggle
    phase,            \* history: per alert, where it is in fire / toggle
    retired,          \* history: the rules deleted after they had fired
    lastEval          \* history: the evaluation of the alert rules that the
                      \* step into this state made, if it made one

klineVars == <<klineData, processed, klineDone>>

indVars == <<series, withInd, indDone, prefixLen, withIndPrefix>>

patVars == <<patternData, detections>>

apiVars == <<requests, promises>>

wsVars == <<ws, reconnectAttempts, sockets, timers, delivered, scheduledInRow>>

appVars == <<alerts, marketData, loading, error, pending, fetches, selected,
             interval, clock, created, fires, phase, retired, lastEval>>

vars == <<klineVars, apiVars, indVars, patVars, wsVars, appVars>>

-----------------------------------------------------------------------------
(* JavaScript numbers *)

NaN == <<0, 0>>
PosInf == <<1, 0>>
NegInf == <<-1, 0>>

AbsI(x) == IF x < 0 THEN -x ELSE x

Sgn(x) == IF x > 0 THEN 1 ELSE IF x < 0 THEN -1 ELSE 0

RECURSIVE GCD(_, _)
GCD(a, b) == IF b = 0 THEN a ELSE GCD(b, a % b)

\* lowest terms; a zero denominator keeps only the sign of the numerator
Norm(n, d) ==
    IF d = 0 THEN <<Sgn(n), 0>>
    ELSE LET g == GCD(AbsI(n), d) IN <<n \div g, d \div g>>

FromInt(i) == <<i, 1>>

IsNaN(a) == a = NaN

IsFinite(a) == a[2] # 0

NumNeg(a) == <<-a[1], a[2]>>

NumAdd(a, b) ==
    IF a[2] = 0 /\ b[2] = 0
    THEN (IF a = b THEN a ELSE NaN)
    ELSE LET g == GCD(a[2], b[2])
         IN  Norm(a[1] * (b[2] \div g) + b[1] * (a[2] \div g), (a[2] \div g) * b[2])

NumSub(a, b) == NumAdd(a, NumNeg(b))

NumMul(a, b) == Norm(a[1] * b[1], a[2] * b[2])

NumRecip(a) == IF a[1] < 0 THEN <<-a[2], -a[1]>> ELSE <<a[2], a[1]>>

NumDiv(a, b) == NumMul(a, NumRecip(b))

\* a < b; FALSE whenever an operand is NaN
NumLt(a, b) ==
    /\ ~IsNaN(a)
    /\ ~IsNaN(b)
    /\ IF a[2] = 0 /\ b[2] = 0 THEN a[1] < b[1]
       ELSE a[1] * b[2] < b[1] * a[2]

NumGt(a, b) == NumLt(b, a)

NumAbs(a) == <<AbsI(a[1]), a[2]>>

\* Math.min: NaN if an argument is NaN
NumMin(a, b) ==
    IF IsNaN(a) \/ IsNaN(b) THEN NaN
    ELSE IF NumLt(b, a) THEN b ELSE a

-----------------------------------------------------------------------------
(* parseFloat.  A string is a sequence of one-character strings.  The      *)
(* longest prefix of the form [-]digits[.digits] is converted; a string    *)
(* with no digit in that prefix gives NaN.                                 *)

Digits == {"0", "1", "2", "3", "4", "5", "6", "7", "8", "9"}

DigitVal(c) ==
    CASE c = "0" -> 0 [] c = "1" -> 1 [] c = "2" -> 2 [] c = "3" -> 3
      [] c = "4" -> 4 [] c = "5" -> 5 [] c = "6" -> 6 [] c = "7" -> 7
      [] c = "8" -> 8 [] c = "9" -> 9

RECURSIVE DigitPrefixLen(_)
DigitPrefixLen(s) ==
    IF s = <<>> \/ Head(s) \notin Digits THEN 0
    ELSE 1 + DigitPrefixLen(Tail(s))

RECURSIVE DigitsVal(_)
DigitsVal(s) ==
    IF s = <<>> THEN 0
    ELSE 10 * DigitsVal(SubSeq(s, 1, Len(s) - 1)) + DigitVal(s[Len(s)])

RECURSIVE Pow10(_)
Pow10(k) == IF k = 0 THEN 1 ELSE 10 * Pow10(k - 1)

ParseFloat(s) ==
    LET neg == s # <<>> /\ Head(s) = "-"
        body == IF neg THEN Tail(s) ELSE s
        ip == DigitPrefixLen(body)
        rest == SubSeq(body, ip + 1, Len(body))
        fp == IF rest # <<>> /\ Head(rest) = "."
              THEN DigitPrefixLen(Tail(rest)) ELSE 0
        ds == SubSeq(body, 1, ip) \o SubSeq(rest, 2, 1 + fp)
    IN  IF ip + fp = 0 THEN NaN
        ELSE Norm((IF neg THEN -1 ELSE 1) * DigitsVal(ds), Pow10(fp))

-----------------------------------------------------------------------------
(* processKlineData *)

\* Timestamps are counted in minutes since the epoch (the granule of the
\* finest kline stream) instead of milliseconds; one day, 24 * 60 * 60 * 1000
\* ms, is 1440 of them.
DayLen == 1440

\* Date.getDay() of a timestamp (UTC; 1970-01-01 was a Thursday)
GetDay(t) == ((t \div DayLen) + 4) % 7

\* The local time zone of Date is taken to be UTC, without daylight saving.
IsLeapYear(year) == year % 4 = 0 /\ (year % 100 # 0 \/ year % 400 = 0)

DaysInYear(year) == IF IsLeapYear(year) THEN 366 ELSE 365

EpochYear == 1970

RECURSIVE YearFrom(_, _, _)
\* the year that holds the day-th day after the epoch, and the day on which
\* that year starts, counted on from the year that starts on the day start
YearFrom(year, start, day) ==
    IF day < start + DaysInYear(year)
    THEN [year |-> year, start |-> start]
    ELSE YearFrom(year + 1, start + DaysInYear(year), day)

\* Date.getFullYear() of a timestamp
GetFullYear(t) == YearFrom(EpochYear, 0, t \div DayLen).year

\* new Date(year, 0, 1).getTime() for the year of the timestamp t
StartOfYear(t) == YearFrom(EpochYear, 0, t \div DayLen).start * DayLen

MonthLengths(year) ==
    <<31, IF IsLeapYear(year) THEN 29 ELSE 28, 31, 30, 31, 30, 31, 31, 30, 31, 30, 31>>

RECURSIVE MonthFrom(_, _, _)
\* the 0-based month that holds the day-th day (0-based) counted from the
\* first day of the 0-based month month of year
MonthFrom(year, month, day) ==
    IF day < MonthLengths(year)[month + 1] THEN month
    ELSE MonthFrom(year, month + 1, day - MonthLengths(year)[month + 1])

\* Date.getMonth() of a timestamp
GetMonth(t) == MonthFrom(GetFullYear(t), 0, (t - StartOfYear(t)) \div DayLen)

\* Math.ceil(n / d) of integers n >= 0, d > 0
CeilOfQuotient(n, d) == (n + d - 1) \div d

getWeekOfYear(date) ==
    LET startOfYear == StartOfYear(date)
        days == (date - startOfYear) \div DayLen
    IN  CeilOfQuotient(days + GetDay(startOfYear) + 1, 7)

\* variant of ProcessKline: the price range and change are taken relative to
\* the close instead of the open
ProcessKlineCloseBase(kline) ==
    LET open == ParseFloat(kline.open)
        high == ParseFloat(kline.high)
        low == ParseFloat(kline.low)
        close == ParseFloat(kline.close)
        volume == ParseFloat(kline.volume)
        date == kline.openTime
    IN  [date |-> date,
         open |-> open,
         high |-> high,
         low |-> low,
         close |-> close,
         volume |-> volume,
         volatility |-> NumMul(NumDiv(NumSub(high, low), close), FromInt(100)),
         performance |-> NumMul(NumDiv(NumSub(close, open), close), FromInt(100)),
         liquidity |-> NumMin(NumDiv(volume, FromInt(1000000)), FromInt(1)),
         dayOfWeek |-> GetDay(date),
         weekOfYear |-> getWeekOfYear(date),
         monthOfYear |-> GetMonth(date) + 1]

ProcessKline(kline) ==
    LET open == ParseFloat(kline.open)
        high == ParseFloat(kline.high)
        low == ParseFloat(kline.low)
        close == ParseFloat(kline.close)
        volume == ParseFloat(kline.volume)
        date == kline.openTime
    IN  [date |-> date,
         open |-> open,
         high |-> high,
         low |-> low,
         close |-> close,
         volume |-> volume,
         volatility |-> NumMul(NumDiv(NumSub(high, low), open), FromInt(100)),
         performance |-> NumMul(NumDiv(NumSub(close, open), open), FromInt(100)),
         liquidity |-> NumMin(NumDiv(volume, FromInt(1000000)), FromInt(1)),
         dayOfWeek |-> GetDay(date),
         weekOfYear |-> getWeekOfYear(date),
         monthOfYear |-> GetMonth(date) + 1]

processKlineData(klines) == [i \in 1..Len(klines) |-> ProcessKline(klines[i])]

-----------------------------------------------------------------------------
(* Inputs of processKlineData *)

MaxKlines == 2

S90 == <<"9", "0">>
S100 == <<"1", "0", "0">>
S105 == <<"1", "0", "5">>
S110 == <<"1", "1", "0">>

\* price strings as the exchange reports them, and malformed ones
BasePrices == {S90, S100, S110}

Candle(t, o, h, l, c, v) ==
    [openTime |-> t, open |-> o, high |-> h, low |-> l, close |-> c, volume |-> v]

V500k == <<"5", "0", "0", "0", "0", "0">>
V2M == <<"2", "0", "0", "0", "0", "0", "0">>

\* the candles of one position of the series, by open time t
CandlesAt(t) ==
    { Candle(t, S100, h, l, c, V500k) : h \in BasePrices, l \in BasePrices, c \in BasePrices }
    \cup { Candle(t, S100, S110, S90, S105, V2M),
           Candle(t, <<"0">>, S110, S90, S100, V500k),
           Candle(t, <<"0">>, S100, S100, S100, V500k),
           Candle(t, <<"x">>, S110, S90, S100, V500k),
           Candle(t, S100, <<"n", "a">>, S90, S100, V500k),
           Candle(t, S100, S110, <<>>, S100, <<"-">>),
           Candle(t, <<"9", "9", ".", "5">>, <<"1", "0", "0", ".", "2", "5">>,
                     <<"9", "9", ".">>, <<".", "5">>, <<"1", "2", "x">>),
           Candle(t, S110, S100, S105, S90, V500k) }

KlineInputs ==
    UNION { { k \in [1..n -> UNION { CandlesAt(t * DayLen) : t \in 0..(n - 1) }] :
                \A i \in 1..n : k[i].openTime = (i - 1) * DayLen }
            : n \in 0..MaxKlines }

IdleKline ==
    /\ klineData = <<>>
    /\ processed = <<>>
    /\ klineDone = FALSE

CallProcessKlineData ==
    /\ ~klineDone
    /\ processed' = processKlineData(klineData)
    /\ klineDone' = TRUE
    /\ UNCHANGED <<klineData, apiVars, indVars, patVars, wsVars, appVars>>

-----------------------------------------------------------------------------
(* calculateTechnicalIndicators *)

\* Array.prototype.slice(from, to) on a 0-based array: elements from..to-1
Slice(data, from, to) == SubSeq(data, from + 1, to)

\* xs[lo] + ... + xs[hi] added to 0.  Array.reduce folds from the left; exact
\* addition is associative (also with NaN and the infinities), so the sum is
\* evaluated as a balanced tree to keep the evaluation shallow.
RECURSIVE NumSumRange(_, _, _)
NumSumRange(xs, lo, hi) ==
    IF lo > hi THEN FromInt(0)
    ELSE IF lo = hi THEN NumAdd(FromInt(0), xs[lo])
    ELSE LET mid == (lo + hi) \div 2
         IN  NumAdd(NumSumRange(xs, lo, mid), NumSumRange(xs, mid + 1, hi))

\* data.reduce((sum, d) => sum + d.close, 0)
SumClose(data) ==
    NumSumRange([i \in 1..Len(data) |-> data[i].close], 1, Len(data))

\* variant of HasSma20: the window test is off by one
HasSma20Late(index) == index >= 20

HasSma20(index) == index >= 19

HasSma50(index) == index >= 49

HasRsi(index) == index >= 14

\* variant of Sma20: the window starts one record late (19 records)
Sma20ShortWindow(data, index) ==
    NumDiv(SumClose(Slice(data, index - 18, index + 1)), FromInt(20))

Sma20(data, index) ==
    NumDiv(SumClose(Slice(data, index - 19, index + 1)), FromInt(20))

\* variant of Sma50: the window also takes the record after index, when the
\* series has one
Sma50Lookahead(data, index) ==
    LET to == IF index + 2 <= Len(data) THEN index + 2 ELSE index + 1
    IN  NumDiv(SumClose(Slice(data, index - 48, to)), FromInt(50))

Sma50(data, index) ==
    NumDiv(SumClose(Slice(data, index - 49, index + 1)), FromInt(50))

\* the for loop over rsiData: <<gains, losses>> after the steps 1..i
RECURSIVE RsiSums(_, _)
RsiSums(rsiData, i) ==
    IF i = 0 THEN <<FromInt(0), FromInt(0)>>
    ELSE LET prev == RsiSums(rsiData, i - 1)
             change == NumSub(rsiData[i + 1].close, rsiData[i].close)
         IN  IF NumGt(change, FromInt(0))
             THEN <<NumAdd(prev[1], change), prev[2]>>
             ELSE <<prev[1], NumAdd(prev[2], NumAbs(change))>>

\* variant of Rsi: the relative strength is taken as avgLoss / avgGain
RsiInverted(data, index) ==
    LET rsiData == Slice(data, index - 14, index + 1)
        sums == RsiSums(rsiData, Len(rsiData) - 1)
        avgGain == NumDiv(sums[1], FromInt(14))
        avgLoss == NumDiv(sums[2], FromInt(14))
        rs == NumDiv(avgLoss, avgGain)
    IN  NumSub(FromInt(100), NumDiv(FromInt(100), NumAdd(FromInt(1), rs)))

Rsi(data, index) ==
    LET rsiData == Slice(data, index - 14, index + 1)
        sums == RsiSums(rsiData, Len(rsiData) - 1)
        avgGain == NumDiv(sums[1], FromInt(14))
        avgLoss == NumDiv(sums[2], FromInt(14))
        rs == NumDiv(avgGain, avgLoss)
    IN  NumSub(FromInt(100), NumDiv(FromInt(100), NumAdd(FromInt(1), rs)))

NoFields == [f \in {} |-> 0]

\* the indicators object built for the record at index (0-based)
Indicators(data, index) ==
    (IF HasSma20(index) THEN [sma20 |-> Sma20(data, index)] ELSE NoFields)
    @@ (IF HasSma50(index) THEN [sma50 |-> Sma50(data, index)] ELSE NoFields)
    @@ (IF HasRsi(index) THEN [rsi |-> Rsi(data, index)] ELSE NoFields)

\* { ...day, ...indicators }: a field of indicators wins
calculateTechnicalIndicators(data) ==
    IF Len(data) < 20 THEN data
    ELSE [i \in 1..Len(data) |-> Indicators(data, i - 1) @@ data[i]]

-----------------------------------------------------------------------------
(* Inputs of calculateTechnicalIndicators: series of ProcessedDayData *)

MaxSeries == 51

Shapes == {"up", "down", "flat", "saw", "zigzag", "half", "peak"}

\* close of day i (0-based) of a series of the given shape
CloseOf(shape, i) ==
    CASE shape = "up" -> FromInt(105 + i)
      [] shape = "down" -> FromInt(200 - i)
      [] shape = "flat" -> FromInt(100)
      [] shape = "saw" -> FromInt(100 + ((i * 7) % 5))
      [] shape = "zigzag" -> FromInt(100 + 3 * (i % 2))
      [] shape = "half" -> Norm(201 + (i % 4), 2)
      [] shape = "peak" -> FromInt(IF i % 16 = 15 THEN 140 ELSE 100 + (i % 3))

\* a record as processKlineData derives it from a candle that opens at the
\* previous close
Day(shape, i) ==
    LET close == CloseOf(shape, i)
        open == IF i = 0 THEN close ELSE CloseOf(shape, i - 1)
        high == IF NumLt(open, close) THEN close ELSE open
        low == IF NumLt(open, close) THEN open ELSE close
        volume == FromInt(500000 + 1000 * (i % 7))
    IN  [date |-> i * DayLen,
         open |-> open,
         high |-> high,
         low |-> low,
         close |-> close,
         volume |-> volume,
         volatility |-> NumMul(NumDiv(NumSub(high, low), open), FromInt(100)),
         performance |-> NumMul(NumDiv(NumSub(close, open), open), FromInt(100)),
         liquidity |-> NumMin(NumDiv(volume, FromInt(1000000)), FromInt(1)),
         dayOfWeek |-> GetDay(i * DayLen)]

SeriesOf(shape, n) == [i \in 1..n |-> Day(shape, i - 1)]

SeriesInputs == { SeriesOf(shape, n) : shape \in Shapes, n \in 0..MaxSeries }

\* variant of ArgumentAfterIndicators: the indicators are assigned to the
\* records of the argument
ArgumentAfterIndicatorsAssigned(data) == calculateTechnicalIndicators(data)

\* the caller's array after calculateTechnicalIndicators(data): data.map and
\* data.slice read it, every record returned is a new object { ...day,
\* ...indicators }, nothing is written to data or its records
ArgumentAfterIndicators(data) == data

CallCalculateTechnicalIndicators ==
    /\ ~indDone
    /\ withInd' = calculateTechnicalIndicators(series)
    /\ indDone' = TRUE
    /\ series' = ArgumentAfterIndicators(series)
    /\ UNCHANGED <<prefixLen, withIndPrefix, klineVars, apiVars, patVars, wsVars, appVars>>

NoPrefix == -1

\* the lengths at which the series is also augmented before its last records
\* were appended
PrefixLens(n) == { k \in {0, 14, 15, 19, 20, 21, 49, 50, n - 1, n} : 0 <= k /\ k <= n }

\* calculateTechnicalIndicators was called when the series had its first m
\* records only
CallOnPrefix(m) ==
    /\ prefixLen = NoPrefix
    /\ prefixLen' = m
    /\ withIndPrefix' = calculateTechnicalIndicators(SubSeq(series, 1, m))
    /\ UNCHANGED <<series, withInd, indDone, klineVars, apiVars, patVars, wsVars, appVars>>

-----------------------------------------------------------------------------
(* BinanceApiService: pattern detection *)

RECURSIVE ISqrtIn(_, _, _)
\* the largest r in lo..hi with r * r <= n
ISqrtIn(n, lo, hi) ==
    IF lo = hi THEN lo
    ELSE LET mid == (lo + hi + 1) \div 2
         IN  IF mid * mid <= n THEN ISqrtIn(n, mid, hi) ELSE ISqrtIn(n, lo, mid - 1)

ISqrt(n) == ISqrtIn(n, 0, 46340)

\* the resolution of the roots that are not rational
SqrtScale == 100

\* Math.sqrt: exact when the root is rational, rounded down to a multiple of
\* 1 / SqrtScale when it is not
Sqrt(x) ==
    IF IsNaN(x) \/ x[1] < 0 THEN NaN
    ELSE IF x[2] = 0 THEN PosInf
    ELSE LET rn == ISqrt(x[1])
             rd == ISqrt(x[2])
         IN  IF rn * rn = x[1] /\ rd * rd = x[2] THEN Norm(rn, rd)
             ELSE Norm(ISqrt((x[1] \div x[2]) * SqrtScale * SqrtScale
                             + ((x[1] % x[2]) * SqrtScale * SqrtScale) \div x[2]),
                       SqrtScale)

DigitChars == <<"0", "1", "2", "3", "4", "5", "6", "7", "8", "9">>

RECURSIVE DigitsOf(_)
\* the decimal digits of n >= 0
DigitsOf(n) ==
    IF n < 10 THEN <<DigitChars[n + 1]>>
    ELSE Append(DigitsOf(n \div 10), DigitChars[(n % 10) + 1])

\* `${n}` of an integer n, as its characters.  An id is the sequence of the
\* literal text that opens it, as one element, and of the characters that
\* follow, so that two ids are equal exactly if they are the same string.
IntToString(n) == IF n < 0 THEN <<"-">> \o DigitsOf(-n) ELSE DigitsOf(n)

\* values.reduce((sum, v) => sum + v, 0) / values.length
Mean(values) ==
    NumDiv(NumSumRange(values, 1, Len(values)), FromInt(Len(values)))

\* calculateVariance(values)
calculateVariance(values) ==
    LET mean == Mean(values)
        squaredDiffs == [i \in 1..Len(values) |->
                            NumMul(NumSub(values[i], mean), NumSub(values[i], mean))]
    IN  NumDiv(NumSumRange(squaredDiffs, 1, Len(squaredDiffs)), FromInt(Len(values)))

Volatilities(data) == [i \in 1..Len(data) |-> data[i].volatility]

Performances(data) == [i \in 1..Len(data) |-> data[i].performance]

Volumes(data) == [i \in 1..Len(data) |-> data[i].volume]

\* getDayName(day)
GetDayName(day) ==
    IF day \in 0..6
    THEN <<"Sunday", "Monday", "Tuesday", "Wednesday", "Thursday", "Friday",
           "Saturday">>[day + 1]
    ELSE "Unknown"

\* the keys of weeklyPatterns in the order a Map iterates them: by first
\* occurrence in data
WeekdayKeys(data) ==
    LET positions == [i \in 1..Len(data) |-> i]
        IsFirst(i) == \A j \in 1..(i - 1) : data[j].dayOfWeek # data[i].dayOfWeek
        firsts == SelectSeq(positions, IsFirst)
    IN  [k \in 1..Len(firsts) |-> data[firsts[k]].dayOfWeek]

\* weeklyPatterns.get(dayOfWeek)
WeekdayGroup(data, dayOfWeek) ==
    LET OnDay(d) == d.dayOfWeek = dayOfWeek
    IN  SelectSeq(data, OnDay)

\* variant of TooFewDays: groups of 4 days are analysed
TooFewDaysLax(days) == Len(days) < 4

\* if (days.length < 5) return
TooFewDays(days) == Len(days) < 5

\* if (avgVolatility > 1.5 || avgVolatility < 0.3)
IsSignificant(avgVolatility) ==
    NumGt(avgVolatility, <<3, 2>>) \/ NumLt(avgVolatility, <<3, 10>>)

\* the groups of weeklyPatterns that push a pattern, in iteration order
SeasonalKeys(data) ==
    LET Emits(dayOfWeek) ==
            LET days == WeekdayGroup(data, dayOfWeek)
            IN  /\ ~TooFewDays(days)
                /\ IsSignificant(Mean(Volatilities(days)))
    IN  SelectSeq(WeekdayKeys(data), Emits)

\* variant of SeasonalConfidence: the score is not capped
SeasonalConfidenceUncapped(avgVolatility) == NumDiv(avgVolatility, FromInt(2))

\* Math.min(avgVolatility / 2, 1)
SeasonalConfidence(avgVolatility) ==
    NumMin(NumDiv(avgVolatility, FromInt(2)), FromInt(1))

\* variant of NextIdx: the counter is never advanced
NextIdxStuck(pushed) == 0

\* idx++ in the id of a pattern: the number of patterns the pass pushed before
NextIdx(pushed) == pushed

\* the pattern pushed for the group of dayOfWeek when idx patterns were
\* pushed before it (description, a text of the same values, is left out)
SeasonalPattern(data, dayOfWeek, idx) ==
    LET days == WeekdayGroup(data, dayOfWeek)
        avgVolatility == Mean(Volatilities(days))
        avgPerformance == Mean(Performances(days))
        avgVolume == Mean(Volumes(days))
    IN  [id |-> <<"seasonal-">> \o IntToString(dayOfWeek) \o <<"-">>
                 \o IntToString(days[1].date) \o <<"-">>
                 \o IntToString(days[Len(days)].date) \o <<"-">>
                 \o IntToString(idx),
         type |-> "seasonal",
         name |-> <<"High volatility on ", GetDayName(dayOfWeek)>>,
         confidence |-> SeasonalConfidence(avgVolatility),
         startDate |-> days[1].date,
         endDate |-> days[Len(days)].date,
         metrics |-> [volatility |-> avgVolatility,
                      performance |-> avgPerformance,
                      volume |-> avgVolume]]

detectSeasonalPatterns(data) ==
    LET keys == SeasonalKeys(data)
    IN  [k \in 1..Len(keys) |-> SeasonalPattern(data, keys[k], NextIdx(k - 1))]

\* variant of TooShortForCycles: 29 records are enough
TooShortForCyclesLax(data) == Len(data) < 29

\* if (data.length < 30) return patterns
TooShortForCycles(data) == Len(data) < 30

detectCyclicalPatterns(data) ==
    IF TooShortForCycles(data) THEN <<>>
    ELSE LET volatilityValues == Volatilities(data)
             volatilityVariance == calculateVariance(volatilityValues)
         IN  IF NumGt(volatilityVariance, <<1, 2>>)
             THEN <<[id |-> <<"cyclical-">> \o IntToString(data[1].date) \o <<"-">>
                            \o IntToString(data[Len(data)].date),
                     type |-> "cyclical",
                     name |-> "Volatility Cycles Detected",
                     confidence |-> NumMin(volatilityVariance, FromInt(1)),
                     startDate |-> data[1].date,
                     endDate |-> data[Len(data)].date,
                     metrics |-> [volatility |-> Mean(volatilityValues),
                                  performance |-> FromInt(0),
                                  volume |-> FromInt(0)]]>>
             ELSE <<>>

\* if (data.length < 10) return patterns
MinAnomalyData == 10

\* avg + (2 * Math.sqrt(this.calculateVariance(values)))
SpikeThreshold(values) ==
    NumAdd(Mean(values), NumMul(FromInt(2), Sqrt(calculateVariance(values))))

\* variant of ExceedsThreshold: a value equal to the threshold is a spike
ExceedsThresholdInclusive(value, threshold) ==
    NumGt(value, threshold) \/ (~IsNaN(value) /\ value = threshold)

\* day.volatility > volatilityThreshold, day.volume > volumeThreshold
ExceedsThreshold(value, threshold) == NumGt(value, threshold)

\* the checks of the forEach body in the order they run: entry 2i - 1 is the
\* volatility check of record i, entry 2i its volume check
AnomalyChecks(data) ==
    [k \in 1..(2 * Len(data)) |->
        [day |-> (k + 1) \div 2,
         kind |-> IF k % 2 = 1 THEN "volatility" ELSE "volume"]]

\* the pattern pushed by a check that hit when idx patterns were pushed
\* before it (description is left out)
AnomalyPattern(day, kind, threshold, idx) ==
    [id |-> <<IF kind = "volatility" THEN "anomaly-volatility-" ELSE "anomaly-volume-">>
             \o IntToString(day.date) \o <<"-">> \o IntToString(idx),
     type |-> "anomaly",
     name |-> IF kind = "volatility" THEN "Volatility Spike" ELSE "Volume Spike",
     confidence |-> NumMin(NumDiv(IF kind = "volatility" THEN day.volatility
                                  ELSE day.volume, threshold), FromInt(1)),
     startDate |-> day.date,
     endDate |-> day.date,
     metrics |-> [volatility |-> day.volatility,
                  performance |-> day.performance,
                  volume |-> day.volume]]

detectAnomalies(data) ==
    IF Len(data) < MinAnomalyData THEN <<>>
    ELSE LET volatilityThreshold == SpikeThreshold(Volatilities(data))
             volumeThreshold == SpikeThreshold(Volumes(data))
             ThresholdOfKind(kind) ==
                 IF kind = "volatility" THEN volatilityThreshold ELSE volumeThreshold
             Hits(check) ==
                 ExceedsThreshold(IF check.kind = "volatility"
                                  THEN data[check.day].volatility
                                  ELSE data[check.day].volume,
                                  ThresholdOfKind(check.kind))
             hits == SelectSeq(AnomalyChecks(data), Hits)
         IN  [k \in 1..Len(hits) |->
                 AnomalyPattern(data[hits[k].day], hits[k].kind,
                                ThresholdOfKind(hits[k].kind), NextIdx(k - 1))]

\* if (data.length < 20) return patterns
MinTrendData == 20

\* ((lastPrice - firstPrice) / firstPrice) * 100
PriceChange(data) ==
    NumMul(NumDiv(NumSub(data[Len(data)].close, data[1].close), data[1].close),
           FromInt(100))

\* let trendType = 'neutral'; if (priceChange > 5) ... else if (priceChange < -5) ...
TrendType(priceChange) ==
    IF NumGt(priceChange, FromInt(5)) THEN "uptrend"
    ELSE IF NumLt(priceChange, FromInt(-5)) THEN "downtrend"
    ELSE "neutral"

\* variant of TrendConfidence: the strength is not capped
TrendConfidenceUncapped(priceChange) ==
    IF TrendType(priceChange) = "neutral" THEN FromInt(0)
    ELSE NumDiv(NumAbs(priceChange), FromInt(20))

\* let confidence = 0; Math.min(Math.abs(priceChange) / 20, 1) in both branches
TrendConfidence(priceChange) ==
    IF TrendType(priceChange) = "neutral" THEN FromInt(0)
    ELSE NumMin(NumDiv(NumAbs(priceChange), FromInt(20)), FromInt(1))

detectTrends(data) ==
    IF Len(data) < MinTrendData THEN <<>>
    ELSE LET priceChange == PriceChange(data)
             trendType == TrendType(priceChange)
             confidence == TrendConfidence(priceChange)
         IN  IF NumGt(confidence, <<3, 10>>)
             THEN <<[id |-> <<"trend-", trendType, "-">> \o IntToString(data[1].date)
                            \o <<"-">> \o IntToString(data[Len(data)].date),
                     type |-> "trend",
                     name |-> <<trendType, " Detected">>,
                     confidence |-> confidence,
                     startDate |-> data[1].date,
                     endDate |-> data[Len(data)].date,
                     metrics |-> [volatility |-> Mean(Volatilities(data)),
                                  performance |-> priceChange,
                                  volume |-> Mean(Volumes(data))]]>>
             ELSE <<>>

\* variant of DetectionInput: every run consumes the first record of the series
DetectionInputShifted(data, runs) ==
    SubSeq(data, IF runs < Len(data) THEN runs + 1 ELSE Len(data) + 1, Len(data))

\* the series the passes of a run read: the caller's, whatever ran before
DetectionInput(data, runs) == data

detectAllPatterns(data) ==
    [seasonal |-> detectSeasonalPatterns(data),
     cyclical |-> detectCyclicalPatterns(data),
     anomalies |-> detectAnomalies(data),
     trends |-> detectTrends(data)]

(* Inputs of the pattern detection: series of records derived by          *)
(* processKlineData from daily candles that open at 100.                   *)

MaxPatternDays == 36
MaxDetectCalls == 2

PatternShapes ==
    {"calm", "steady", "wild", "ripple", "mixed", "weekend", "spike", "twin", "drift",
     "fall", "surge", "storm", "inverted", "dup"}

\* a price of q quarters as the exchange writes it
QuarterString(q) ==
    IntToString(q \div 4)
    \o (CASE q % 4 = 0 -> <<>>
          [] q % 4 = 1 -> <<".", "2", "5">>
          [] q % 4 = 2 -> <<".", "5">>
          [] q % 4 = 3 -> <<".", "7", "5">>)

\* the high of record i, in quarters
HighOf(shape, i) ==
    CASE shape = "calm" -> 400
      [] shape = "steady" -> 404
      [] shape = "wild" -> 416
      [] shape = "ripple" -> 404 + 4 * (i % 2)
      [] shape = "mixed" -> 400 + 4 * ((i * 3) % 5)
      [] shape = "weekend" -> IF GetDay(i * DayLen) \in {0, 6} THEN 412 ELSE 404
      [] shape = "spike" -> IF i % 16 = 7 THEN 440 ELSE 400
      [] shape = "twin" -> IF i \in {3, 7} THEN 440 ELSE 400
      [] shape = "drift" -> 400 + i
      [] shape = "fall" -> 400
      [] shape = "surge" -> 400 + 4 * i
      [] shape = "storm" -> IF i = 7 THEN 480 ELSE 400 + i
      [] shape = "inverted" -> IF i % 16 = 7 THEN 404 ELSE 360
      [] shape = "dup" -> IF i \in {6, 7} THEN 440 ELSE 400

\* the low of record i, in quarters
LowOf(shape, i) == IF shape = "fall" THEN 400 - i ELSE 400

\* the close of record i, in quarters
CloseQuartersOf(shape, i) ==
    CASE shape \in {"drift", "storm"} -> 400 + i
      [] shape = "fall" -> 400 - i
      [] shape = "surge" -> 400 + 4 * i
      [] OTHER -> 400

VolumeOf(shape, i) ==
    CASE shape = "spike" -> IF i % 16 = 7 THEN 50 ELSE 5
      [] shape = "twin" -> IF i = 3 THEN 50 ELSE 5
      [] OTHER -> 5

\* two records a day in the shape "dup", one a day in the others
OpenTimeOf(shape, i) == IF shape = "dup" THEN (i \div 2) * DayLen ELSE i * DayLen

PatternCandle(shape, i) ==
    Candle(OpenTimeOf(shape, i), S100, QuarterString(HighOf(shape, i)),
           QuarterString(LowOf(shape, i)), QuarterString(CloseQuartersOf(shape, i)),
           IntToString(VolumeOf(shape, i)))

PatternSeries(shape, n) ==
    processKlineData([i \in 1..n |-> PatternCandle(shape, i - 1)])

PatternInputs ==
    { PatternSeries(shape, n) : shape \in PatternShapes, n \in 0..MaxPatternDays }

\* one call detectAllPatterns(data); the caller keeps the result
CallDetectAllPatterns ==
    /\ Len(detections) < MaxDetectCalls
    /\ detections' =
           Append(detections,
                  detectAllPatterns(DetectionInput(patternData, Len(detections))))
    /\ UNCHANGED <<patternData, klineVars, apiVars, indVars, wsVars, appVars>>

-----------------------------------------------------------------------------
(* BinanceApiService: WebSocket connection management *)

MaxReconnectAttempts == 5

ReconnectDelay == 1000

NoSocket == 0

NoHandler == 0

\* variant of CloseSocket: the old socket is left as it is
CloseSocketSkipped(socks, id) == socks

\* WebSocket.close(): a connecting or open socket starts closing and its close
\* event is delivered later; closing an already closing or closed socket
\* does nothing
CloseSocket(socks, id) ==
    [socks EXCEPT ![id].state =
        IF @ \in {"connecting", "open"} THEN "closing" ELSE @]

\* disconnectWebSocket: the sockets and this.ws after the call
DisconnectSockets(socks, w) == IF w # NoSocket THEN CloseSocket(socks, w) ELSE socks

\* new WebSocket(wsUrl) with the four handlers closing over symbols, onMessage
NewSocket(symbols, onMessage) ==
    [state |-> "connecting", symbols |-> symbols, onMessage |-> onMessage]

\* connectWebSocket(symbols, onMessage): <<sockets, this.ws>> after the call
ConnectSockets(socks, w, symbols, onMessage) ==
    LET torn == DisconnectSockets(socks, w)
        opened == Append(torn, NewSocket(symbols, onMessage))
    IN  <<opened, Len(opened)>>

\* variant of ShouldReconnect: the retry cap is tested with <=
ShouldReconnectInclusive(attempts) == attempts <= MaxReconnectAttempts

\* if (this.reconnectAttempts < this.maxReconnectAttempts)
ShouldReconnect(attempts) == attempts < MaxReconnectAttempts

\* variant of ReconnectTimeout: a constant delay
ReconnectTimeoutFlat(attempts) == ReconnectDelay

\* this.reconnectDelay * this.reconnectAttempts
ReconnectTimeout(attempts) == ReconnectDelay * attempts

MaxSockets == 6

SymbolLists == {<<"BTCUSDT">>}

Handlers == {1, 2}

\* a consumer calls connectWebSocket(symbols, onMessage)
ConnectWebSocket(symbols, onMessage) ==
    /\ Len(sockets) < MaxSockets
    /\ LET r == ConnectSockets(sockets, ws, symbols, onMessage)
       IN  sockets' = r[1] /\ ws' = r[2]
    /\ UNCHANGED <<reconnectAttempts, timers, delivered, scheduledInRow>>
    /\ UNCHANGED <<klineVars, apiVars, indVars, patVars, appVars>>

\* a consumer calls disconnectWebSocket()
DisconnectWebSocket ==
    /\ sockets' = DisconnectSockets(sockets, ws)
    /\ ws' = NoSocket
    /\ UNCHANGED <<reconnectAttempts, timers, delivered, scheduledInRow>>
    /\ UNCHANGED <<klineVars, apiVars, indVars, patVars, appVars>>

\* ws.onopen of socket id
SocketOpen(id) ==
    /\ sockets[id].state = "connecting"
    /\ sockets' = [sockets EXCEPT ![id].state = "open"]
    /\ reconnectAttempts' = 0
    /\ scheduledInRow' = 0
    /\ UNCHANGED <<ws, timers, delivered>>
    /\ UNCHANGED <<klineVars, apiVars, indVars, patVars, appVars>>

\* ws.onmessage of socket id: a kline event is converted and passed to
\* onMessage, any other event is dropped
SocketMessage(id, eventType) ==
    /\ sockets[id].state = "open"
    /\ delivered' = IF eventType = "kline" THEN sockets[id].onMessage ELSE NoHandler
    /\ delivered' # delivered
    /\ UNCHANGED <<ws, reconnectAttempts, sockets, timers, scheduledInRow>>
    /\ UNCHANGED <<klineVars, apiVars, indVars, patVars, appVars>>

\* a socket whose close event has been handled: none of its handlers runs
\* again, so the closures it held are dropped
ClosedSocket == [state |-> "closed", symbols |-> <<>>, onMessage |-> NoHandler]

\* the pending timers are a multiset, kept as a sequence ordered by
\* <<nth, onMessage>>; t is inserted at its place
TimerBefore(a, b) ==
    a.nth < b.nth \/ (a.nth = b.nth /\ a.onMessage <= b.onMessage)

AddTimer(ts, t) ==
    LET k == Cardinality({i \in 1..Len(ts) : TimerBefore(ts[i], t)})
    IN  SubSeq(ts, 1, k) \o <<t>> \o SubSeq(ts, k + 1, Len(ts))

\* ws.onclose of socket id: the close event of a socket the service closed, or
\* of one the remote side closed or that failed to connect (ws.onerror, which
\* precedes it, only logs)
SocketClose(id) ==
    /\ sockets[id].state \in {"connecting", "open", "closing"}
    /\ sockets' = [sockets EXCEPT ![id] = ClosedSocket]
    /\ IF ShouldReconnect(reconnectAttempts)
       THEN /\ reconnectAttempts' = reconnectAttempts + 1
            /\ scheduledInRow' = scheduledInRow + 1
            /\ timers' = AddTimer(timers,
                            [symbols |-> sockets[id].symbols,
                             onMessage |-> sockets[id].onMessage,
                             delay |-> ReconnectTimeout(reconnectAttempts + 1),
                             nth |-> scheduledInRow + 1])
       ELSE UNCHANGED <<reconnectAttempts, scheduledInRow, timers>>
    /\ UNCHANGED <<ws, delivered>>
    /\ UNCHANGED <<klineVars, apiVars, indVars, patVars, appVars>>

RemoveAt(seq, k) == SubSeq(seq, 1, k - 1) \o SubSeq(seq, k + 1, Len(seq))

\* variant of ReconnectTimerFires: the callback of the timer is empty
ReconnectTimerFiresIdly(k) ==
    /\ Len(sockets) < MaxSockets
    /\ timers' = RemoveAt(timers, k)
    /\ UNCHANGED <<sockets, ws, reconnectAttempts, delivered, scheduledInRow>>
    /\ UNCHANGED <<klineVars, apiVars, indVars, patVars, appVars>>

\* the k-th pending reconnect timer fires: connectWebSocket(symbols, onMessage)
ReconnectTimerFires(k) ==
    /\ Len(sockets) < MaxSockets
    /\ LET r == ConnectSockets(sockets, ws, timers[k].symbols, timers[k].onMessage)
       IN  sockets' = r[1] /\ ws' = r[2]
    /\ timers' = RemoveAt(timers, k)
    /\ UNCHANGED <<reconnectAttempts, delivered, scheduledInRow>>
    /\ UNCHANGED <<klineVars, apiVars, indVars, patVars, appVars>>

-----------------------------------------------------------------------------
(* MarketSeasonalityExplorer: the alert rules and their evaluation *)

AlertTypes == {"volatility", "performance", "volume", "price"}

AlertConditions == {"above", "below", "equals"}

\* alert.triggeredAt: <<>> for undefined, <<t>> for the Date t
NotTriggered == <<>>

\* Math.abs(currentValue - alert.threshold) < 0.01
Epsilon == <<1, 100>>

\* ws.onmessage: the WebSocketMessage built from the kline k of a stream event
KlineMessage(k) ==
    [symbol |-> "BTCUSDT",
     eventType |-> "kline",
     data |-> [open |-> ParseFloat(k.open),
               high |-> ParseFloat(k.high),
               low |-> ParseFloat(k.low),
               close |-> ParseFloat(k.close),
               volume |-> ParseFloat(k.volume),
               timestamp |-> k.openTime]]

\* checkAlerts: const latestData = marketData[marketData.length - 1]
LatestData(data) == data[Len(data)]

\* checkAlerts: currentValue of the switch on alert.type
CheckValue(alert, latestData) ==
    CASE alert.type = "volatility" -> latestData.volatility
      [] alert.type = "performance" -> latestData.performance
      [] alert.type = "volume" -> latestData.volume
      [] alert.type = "price" -> latestData.close

\* handleWebSocketMessage: currentValue of the switch on alert.type
MessageValue(alert, data) ==
    CASE alert.type = "volatility" ->
             NumMul(NumDiv(NumSub(data.high, data.low), data.open), FromInt(100))
      [] alert.type = "performance" ->
             NumMul(NumDiv(NumSub(data.close, data.open), data.open), FromInt(100))
      [] alert.type = "volume" -> data.volume
      [] alert.type = "price" -> data.close

\* checkAlerts: shouldTrigger of the switch on alert.condition
ShouldTriggerOnCheck(alert, currentValue) ==
    CASE alert.condition = "above" -> NumGt(currentValue, alert.threshold)
      [] alert.condition = "below" -> NumLt(currentValue, alert.threshold)
      [] alert.condition = "equals" ->
             NumLt(NumAbs(NumSub(currentValue, alert.threshold)), Epsilon)

\* variant of ShouldTriggerOnMessage: 'above' also holds at the threshold
ShouldTriggerOnMessageInclusive(alert, currentValue) ==
    CASE alert.condition = "above" -> ~NumLt(currentValue, alert.threshold)
      [] alert.condition = "below" -> NumLt(currentValue, alert.threshold)
      [] alert.condition = "equals" ->
             NumLt(NumAbs(NumSub(currentValue, alert.threshold)), Epsilon)

\* handleWebSocketMessage: shouldTrigger of the switch on alert.condition
ShouldTriggerOnMessage(alert, currentValue) ==
    CASE alert.condition = "above" -> NumGt(currentValue, alert.threshold)
      [] alert.condition = "below" -> NumLt(currentValue, alert.threshold)
      [] alert.condition = "equals" ->
             NumLt(NumAbs(NumSub(currentValue, alert.threshold)), Epsilon)

\* variant of FiredOnCheck: an alert that has a triggeredAt is fired again
FiredOnCheckRepeat(list, data) ==
    { i \in 1..Len(list) :
        /\ list[i].isActive
        /\ ShouldTriggerOnCheck(list[i], CheckValue(list[i], LatestData(data))) }

\* checkAlerts: the positions of the alerts handed to triggerAlert
FiredOnCheck(list, data) ==
    { i \in 1..Len(list) :
        /\ list[i].isActive
        /\ ShouldTriggerOnCheck(list[i], CheckValue(list[i], LatestData(data)))
        /\ list[i].triggeredAt = NotTriggered }

\* handleWebSocketMessage: the positions of the alerts handed to triggerAlert
FiredOnMessage(list, message) ==
    IF Len(list) > 0
    THEN { i \in 1..Len(list) :
             /\ list[i].isActive
             /\ ShouldTriggerOnMessage(list[i], MessageValue(list[i], message.data))
             /\ list[i].triggeredAt = NotTriggered }
    ELSE {}

\* triggerAlert(alert) for each fired alert in list order: the queued
\* setAlerts(prev => prev.map(...)) updates
TriggerUpdates(list, fired) ==
    LET positions == [i \in 1..Len(list) |-> i]
        IsFired(i) == i \in fired
        hit == SelectSeq(positions, IsFired)
    IN  [k \in 1..Len(hit) |-> [op |-> "trigger", id |-> list[hit[k]].id]]

-----------------------------------------------------------------------------
(* MarketSeasonalityExplorer: state, renders and handlers *)

\* error: null
NoError == "null"

\* realTimeConfig.enabled: false in useState, and setRealTimeConfig is never
\* called
RealTimeEnabled == FALSE

RealTimeSymbols == <<"BTCUSDT">>

\* the request of loadMarketData for the selected symbol and timeframe
\* useState('BTCUSDT'), useState(timeframes[0])
InitialSelection == [symbol |-> "BTCUSDT", interval |-> "1d"]

\* binanceApi.getKlineData(selectedSymbol, currentTimeframe.interval, ...)
RequestOf(selection) == [symbol |-> selection.symbol, interval |-> selection.interval]

Request == RequestOf(selected)

\* the rule of an alert: what two equivalent alerts have in common
Rule(alert) ==
    [type |-> alert.type, condition |-> alert.condition, threshold |-> alert.threshold]

\* handleCreateAlert then handleAlertCreate: the alert made of the form at
\* time now; uid is history, the serial number of the object
NewAlert(form, now, uid) ==
    [id |-> now,
     createdAt |-> now,
     type |-> form.type,
     condition |-> form.condition,
     threshold |-> form.threshold,
     isActive |-> TRUE,
     triggeredAt |-> NotTriggered,
     uid |-> uid]

\* variant of ToggleAlert: a toggle also clears triggeredAt
ToggleAlertClearing(a) ==
    [a EXCEPT !.isActive = ~a.isActive, !.triggeredAt = NotTriggered]

\* handleAlertToggle: { ...a, isActive: !a.isActive }
ToggleAlert(a) == [a EXCEPT !.isActive = ~a.isActive]

\* variant of StampAlert: an alert that fires is switched off
StampAlertSwitchingOff(a, now) ==
    [a EXCEPT !.triggeredAt = <<now>>, !.isActive = FALSE]

\* triggerAlert: { ...a, triggeredAt: new Date() }
StampAlert(a, now) == [a EXCEPT !.triggeredAt = <<now>>]

\* one queued state update applied to the state st at time now
ApplyUpdate(st, u, now) ==
    CASE u.op = "trigger" ->
             [st EXCEPT !.alerts =
                 [i \in 1..Len(st.alerts) |->
                     IF st.alerts[i].id = u.id
                     THEN StampAlert(st.alerts[i], now)
                     ELSE st.alerts[i]]]
      [] u.op = "create" -> [st EXCEPT !.alerts = Append(st.alerts, u.alert)]
      [] u.op = "delete" ->
             LET Kept(a) == a.id # u.id
             IN  [st EXCEPT !.alerts = SelectSeq(st.alerts, Kept)]
      [] u.op = "toggle" ->
             [st EXCEPT !.alerts =
                 [i \in 1..Len(st.alerts) |->
                     IF st.alerts[i].id = u.id
                     THEN ToggleAlert(st.alerts[i])
                     ELSE st.alerts[i]]]
      [] u.op = "setMarketData" -> [st EXCEPT !.marketData = u.data]
      [] u.op = "setError" -> [st EXCEPT !.error = u.error]
      [] u.op = "setLoading" -> [st EXCEPT !.loading = u.loading]

RECURSIVE ApplyAll(_, _, _)
\* the queued updates applied in the order they were queued
ApplyAll(st, us, now) ==
    IF us = <<>> THEN st
    ELSE ApplyAll(ApplyUpdate(st, Head(us), now), Tail(us), now)

\* the alert effect: the interval is cleared and, when there are alerts and
\* data, set again with the alerts and marketData of this render
AlertEffect(list, data) ==
    IF Len(list) > 0 /\ Len(data) > 0
    THEN <<[alerts |-> list, marketData |-> data]>>
    ELSE <<>>

\* the WebSocket effect: its cleanup and its body
WebSocketEffect(socks, w, data) ==
    LET torn == <<DisconnectSockets(socks, w), NoSocket>>
    IN  IF RealTimeEnabled /\ Len(data) > 0
        THEN ConnectSockets(torn[1], torn[2], RealTimeSymbols, 1)
        ELSE <<DisconnectSockets(torn[1], torn[2]), NoSocket>>

\* a render that applies the updates us and the selection, followed by its
\* effects
RenderSelecting(us, selection) ==
    LET st == ApplyAll([alerts |-> alerts, marketData |-> marketData,
                        loading |-> loading, error |-> error], us, clock)
        sock == WebSocketEffect(sockets, ws, st.marketData)
    IN  /\ alerts' = st.alerts
        /\ marketData' = st.marketData
        /\ loading' = st.loading
        /\ error' = st.error
        /\ pending' = <<>>
        /\ selected' = selection
        /\ interval' = AlertEffect(st.alerts, st.marketData)
        /\ sockets' = sock[1]
        /\ ws' = sock[2]
        /\ UNCHANGED <<reconnectAttempts, timers, delivered, scheduledInRow>>
        /\ UNCHANGED <<klineVars, apiVars, indVars, patVars>>

\* a render that applies the updates us, followed by its effects
Render(us) == RenderSelecting(us, selected)

MaxPending == 2

MaxCreates == 2

MaxAlerts == 2

MaxClock == 2

Uids == 1..MaxCreates

\* the alerts of list whose id is id, by serial number
UidsOf(list, id) == { list[i].uid : i \in { j \in 1..Len(list) : list[j].id = id } }

\* history: no evaluation was made by the step into this state
NoEvaluation ==
    [kind |-> "none", alerts |-> <<>>, record |-> <<>>, fired |-> {},
     values |-> <<>>, phase |-> [u \in Uids |-> "unused"]]

\* history: the evaluation made by the step into this state
Evaluation(kind, list, record, fired, values) ==
    [kind |-> kind, alerts |-> list, record |-> record, fired |-> fired,
     values |-> values, phase |-> phase]

\* the phases of an alert that has fired: not toggled since, toggled to
\* inactive, toggled back to active, and then passed over by an evaluation
FiredPhases == {"fired", "firedOff", "firedCycled", "passedOver"}

\* history after an evaluation of list called triggerAlert for the alerts
\* at fired
Triggered(list, fired) ==
    LET hit == { list[i].uid : i \in fired }
        passed == { list[i].uid : i \in { j \in 1..Len(list) \ fired :
                       list[j].isActive /\ phase[list[j].uid] = "firedCycled" } }
    IN  /\ fires' = [u \in Uids |-> IF u \in hit THEN fires[u] + 1 ELSE fires[u]]
        /\ phase' = [u \in Uids |->
              IF u \in hit THEN "fired"
              ELSE IF u \in passed THEN "passedOver" ELSE phase[u]]

\* the interval of the alert effect fires: checkAlerts of the render that
\* set it
IntervalFires ==
    /\ interval # <<>>
    /\ Len(pending) < MaxPending
    /\ LET list == interval[1].alerts
           data == interval[1].marketData
           fired == FiredOnCheck(list, data)
       IN  /\ pending' = pending \o TriggerUpdates(list, fired)
           /\ Triggered(list, fired)
           /\ lastEval' = Evaluation("check", list, LatestData(data), fired,
                  [i \in 1..Len(list) |-> CheckValue(list[i], LatestData(data))])
    /\ UNCHANGED <<alerts, marketData, loading, error, fetches, interval, clock,
                   created, retired>>
    /\ UNCHANGED <<selected, klineVars, apiVars, indVars, patVars, wsVars>>

\* handleWebSocketMessage of the latest render is called with message
HandleWebSocketMessage(message) ==
    /\ Len(pending) < MaxPending
    /\ LET fired == FiredOnMessage(alerts, message)
       IN  /\ pending' = pending \o TriggerUpdates(alerts, fired)
           /\ Triggered(alerts, fired)
           /\ lastEval' = Evaluation("message", alerts, message.data, fired,
                  [i \in 1..Len(alerts) |-> MessageValue(alerts[i], message.data)])
    /\ UNCHANGED <<alerts, marketData, loading, error, fetches, interval, clock,
                   created, retired>>
    /\ UNCHANGED <<selected, klineVars, apiVars, indVars, patVars, wsVars>>

\* React renders the updates queued by timers and promises
Commit ==
    /\ pending # <<>>
    /\ Render(pending)
    /\ UNCHANGED <<fetches, clock, created, fires, phase, retired>>
    /\ lastEval' = NoEvaluation

\* loadMarketData after await getKlineData(...) resolved with klines
LoadContinuation(klines) ==
    IF Len(klines) = 0
    THEN <<[op |-> "setError", error |-> "No data received from API"],
           [op |-> "setLoading", loading |-> FALSE]>>
    ELSE <<[op |-> "setMarketData",
            data |-> calculateTechnicalIndicators(processKlineData(klines))],
           [op |-> "setLoading", loading |-> FALSE]>>

\* the k-th pending getKlineData resolves with klines
FetchResolves(k, klines) ==
    /\ fetches' = RemoveAt(fetches, k)
    /\ pending' = pending \o LoadContinuation(klines)
    /\ UNCHANGED <<alerts, marketData, loading, error, interval, clock, created,
                   fires, phase, retired>>
    /\ lastEval' = NoEvaluation
    /\ UNCHANGED <<selected, klineVars, apiVars, indVars, patVars, wsVars>>

\* the Retry button of the error view: loadMarketData()
Retry ==
    /\ error # NoError
    /\ Render(pending \o <<[op |-> "setLoading", loading |-> TRUE],
                           [op |-> "setError", error |-> NoError]>>)
    /\ fetches' = Append(fetches, Request)
    /\ UNCHANGED <<clock, created, fires, phase, retired>>
    /\ lastEval' = NoEvaluation

\* the render after setSelectedSymbol or setCurrentTimeframe made
\* loadMarketData a new callback, and the effect that calls it: the updates
\* before its await, and the request
SelectionChange(selection) ==
    /\ selection # selected
    /\ RenderSelecting(pending \o <<[op |-> "setLoading", loading |-> TRUE],
                                    [op |-> "setError", error |-> NoError]>>,
                       selection)
    /\ fetches' = Append(fetches, RequestOf(selection))
    /\ UNCHANGED <<clock, created, fires, phase, retired>>
    /\ lastEval' = NoEvaluation

\* handleSymbolChange(symbol) of the filter controls
HandleSymbolChange(symbol) ==
    SelectionChange([selected EXCEPT !.symbol = symbol])

\* handleTimeframeChange(timeframe) of the filter controls
HandleTimeframeChange(timeframe) ==
    SelectionChange([selected EXCEPT !.interval = timeframe])

\* the alerts view is on screen
AlertSystemShown == ~loading /\ error = NoError /\ Len(marketData) > 0

\* Create Alert of the form: handleCreateAlert, handleAlertCreate
HandleAlertCreate(form) ==
    /\ AlertSystemShown
    /\ created < MaxCreates
    /\ Len(alerts) < MaxAlerts
    /\ Render(pending \o <<[op |-> "create",
                            alert |-> NewAlert(form, clock, created + 1)]>>)
    /\ created' = created + 1
    /\ phase' = [phase EXCEPT ![created + 1] =
                    IF Rule(form) \in retired THEN "recreated" ELSE "new"]
    /\ UNCHANGED <<fetches, clock, fires, retired>>
    /\ lastEval' = NoEvaluation

\* the toggle button of a listed alert: handleAlertToggle(alertId)
HandleAlertToggle(alertId) ==
    /\ AlertSystemShown
    /\ \E i \in 1..Len(alerts) : alerts[i].id = alertId
    /\ Render(pending \o <<[op |-> "toggle", id |-> alertId]>>)
    /\ LET hit == UidsOf(alerts, alertId)
           NowActive(u) == \E i \in 1..Len(alerts') :
                               alerts'[i].uid = u /\ alerts'[i].isActive
       IN  /\ fires' = [u \in Uids |-> IF u \in hit THEN 0 ELSE fires[u]]
           /\ phase' = [u \in Uids |->
                 IF u \in hit /\ phase[u] \in FiredPhases
                 THEN (IF NowActive(u) THEN "firedCycled" ELSE "firedOff")
                 ELSE phase[u]]
    /\ UNCHANGED <<fetches, clock, created, retired>>
    /\ lastEval' = NoEvaluation

\* the delete button of a listed alert: handleAlertDelete(alertId)
HandleAlertDelete(alertId) ==
    /\ AlertSystemShown
    /\ \E i \in 1..Len(alerts) : alerts[i].id = alertId
    /\ Render(pending \o <<[op |-> "delete", id |-> alertId]>>)
    /\ LET hit == UidsOf(alerts, alertId)
       IN  /\ fires' = [u \in Uids |-> IF u \in hit THEN 0 ELSE fires[u]]
           /\ retired' = retired \cup
                 { Rule(alerts[i]) : i \in { j \in 1..Len(alerts) :
                      /\ alerts[j].id = alertId
                      /\ phase[alerts[j].uid] \in FiredPhases } }
    /\ UNCHANGED <<fetches, clock, created, phase>>
    /\ lastEval' = NoEvaluation

\* time passes: Date.now() advances
Tick ==
    /\ clock < MaxClock
    /\ clock' = clock + 1
    /\ UNCHANGED <<alerts, marketData, loading, error, pending, fetches, interval,
                   created, fires, phase, retired>>
    /\ lastEval' = NoEvaluation
    /\ UNCHANGED <<selected, klineVars, apiVars, indVars, patVars, wsVars>>

-----------------------------------------------------------------------------
(* Inputs of the component *)

\* the component before it is mounted: the initial values of useState
IdleApp ==
    /\ alerts = <<>>
    /\ marketData = <<>>
    /\ loading = FALSE
    /\ error = NoError
    /\ pending = <<>>
    /\ fetches = <<>>
    /\ interval = <<>>
    /\ clock = 1
    /\ created = 0
    /\ fires = [u \in Uids |-> 0]
    /\ phase = [u \in Uids |-> "unused"]
    /\ retired = {}
    /\ lastEval = NoEvaluation
    /\ selected = InitialSelection

ExampleCandle(t) == Candle(t, S100, S110, S90, S105, V2M)

\* what getKlineData resolves with: nothing (also on a request error), or
\* the candles of the symbol
KlineResponses == { <<>>, <<ExampleCandle(0)>> }

Form(type, condition, threshold) ==
    [type |-> type, condition |-> condition, threshold |-> threshold]

\* the forms the user submits
AppForms ==
    { Form("volatility", "above", FromInt(5)),
      Form("price", "below", FromInt(100)) }

\* the threshold the evaluated rules of a type are given
ThresholdOf(type) == IF type = "price" THEN FromInt(105) ELSE FromInt(5)

\* the rules evaluated: every type and condition, and a threshold field that
\* was left empty (parseFloat('') is NaN)
EvalForms ==
    { Form(t, c, ThresholdOf(t)) : t \in AlertTypes, c \in AlertConditions }
    \cup { Form("volatility", "above", NaN) }

\* offsets of the evaluated value from the threshold, as the digits after
\* 105 (price) and after 5 (volume)
EvalOffsets ==
    { <<S105, <<"5">> >>,
      << <<"1", "0", "5", ".", "0", "1">>, <<"5", ".", "0", "1">> >>,
      << <<"1", "0", "4", ".", "9", "9">>, <<"4", ".", "9", "9">> >>,
      << <<"1", "0", "5", ".", "0", "0", "5">>, <<"5", ".", "0", "0", "5">> >>,
      << <<"1", "0", "4", ".", "9", "9", "5">>, <<"4", ".", "9", "9", "5">> >>,
      << <<"x">>, <<"x">> >> }

\* candles opening and bottoming at 100 whose range, change, close and volume
\* are at the offsets around the thresholds, and a candle that opens at 0
EvalCandles ==
    { Candle(DayLen, S100, o[1], S100, o[1], o[2]) : o \in EvalOffsets }
    \cup { Candle(DayLen, <<"0">>, S105, S100, S105, <<"5">>) }

\* the messages ws.onmessage makes of these candles
EvalMessages == { KlineMessage(k) : k \in EvalCandles }

\* an alert as a sequence of creations, triggers and toggles leaves it
EvalAlert(form, active, stamp, n) ==
    [NewAlert(form, n, n) EXCEPT !.isActive = active, !.triggeredAt = stamp]

EvalAlerts(forms, n) ==
    { EvalAlert(f, a, s, n) : f \in forms, a \in BOOLEAN, s \in {NotTriggered, <<1>>} }

EvalAlertLists ==
    { <<a>> : a \in EvalAlerts(EvalForms, 1) }
    \cup { <<a, b>> : a \in EvalAlerts(EvalForms, 1),
                      b \in EvalAlerts({ Form("price", "above", ThresholdOf("price")) }, 2) }

-----------------------------------------------------------------------------
(* BinanceApiService: the REST calls getKlineData and getSymbols *)

\* a promise that was fulfilled with value
Fulfilled(value) == [state |-> "fulfilled", value |-> value]

\* a promise that was rejected
Rejected == [state |-> "rejected", value |-> <<>>]

\* the answers of axios.get: the request failed (network error or an error
\* status), or it returned a body
RequestFailed == [kind |-> "failed", body |-> <<>>]

Response(body) == [kind |-> "ok", body |-> body]

\* a body that is a JSON array, and one that is something else
ArrayBody(items) == [array |-> TRUE, items |-> items]

ObjectBody(fields) == [array |-> FALSE, fields |-> fields]

\* one entry of the array of /klines; the entries 6..10, which
\* processKlineData does not read, are left out
RawKline(k) == <<k.openTime, k.open, k.high, k.low, k.close, k.volume>>

\* response.data.map(kline => ({ openTime: kline[0], ... }))
KlineOfRaw(kline) == Candle(kline[1], kline[2], kline[3], kline[4], kline[5], kline[6])

\* variant of KlineFallback: the catch block throws the error on
KlineFallbackRethrown == Rejected

\* catch (error) { console.error(...); return []; }
KlineFallback == Fulfilled(<<>>)

\* getKlineData after axios.get settled with answer; response.data.map throws
\* a TypeError inside the try block when the body is not an array
KlinePromise(answer) ==
    IF answer.kind = "failed" THEN KlineFallback
    ELSE IF ~answer.body.array THEN KlineFallback
    ELSE Fulfilled([i \in 1..Len(answer.body.items) |-> KlineOfRaw(answer.body.items[i])])

FallbackSymbols == <<"BTCUSDT", "ETHUSDT", "BNBUSDT", "ADAUSDT", "DOTUSDT">>

\* catch (error) { console.error(...); return [...five symbols]; }
SymbolsFallback == Fulfilled(FallbackSymbols)

\* .slice(0, 50)
SymbolLimit == 50

\* getSymbols after axios.get settled with answer; response.data.symbols
\* .filter throws a TypeError inside the try block when the body has no
\* symbols
SymbolsPromise(answer) ==
    IF answer.kind = "failed" THEN SymbolsFallback
    ELSE IF answer.body.array \/ "symbols" \notin DOMAIN answer.body.fields
    THEN SymbolsFallback
    ELSE LET Listed(symbol) ==
                 /\ symbol.status = "TRADING"
                 /\ symbol.quoteAsset = "USDT"
                 /\ symbol.isSpotTradingAllowed
             listed == SelectSeq(answer.body.fields.symbols, Listed)
             names == [i \in 1..Len(listed) |-> listed[i].symbol]
         IN  Fulfilled(SubSeq(names, 1, IF Len(names) < SymbolLimit
                                        THEN Len(names) ELSE SymbolLimit))

MaxApiCalls == 3

\* what the exchange answers to /klines
KlineAnswers ==
    { RequestFailed,
      Response(ObjectBody([code |-> -1121])),
      Response(ArrayBody(<<>>)),
      Response(ArrayBody(<<RawKline(ExampleCandle(0))>>)),
      Response(ArrayBody(<<RawKline(ExampleCandle(0)), RawKline(ExampleCandle(DayLen))>>)) }

ExchangeSymbol(symbol, status, quoteAsset, spot) ==
    [symbol |-> symbol, status |-> status, quoteAsset |-> quoteAsset,
     isSpotTradingAllowed |-> spot]

\* what the exchange answers to /exchangeInfo
SymbolAnswers ==
    { RequestFailed,
      Response(ObjectBody([code |-> -1003])),
      Response(ObjectBody([symbols |-> <<>>])),
      Response(ObjectBody([symbols |->
          <<ExchangeSymbol("BTCUSDT", "TRADING", "USDT", TRUE),
            ExchangeSymbol("ETHBTC", "TRADING", "BTC", TRUE),
            ExchangeSymbol("LUNAUSDT", "BREAK", "USDT", TRUE),
            ExchangeSymbol("SOLUSDT", "TRADING", "USDT", TRUE)>>])) }

\* getKlineData(...) or getSymbols() is called: the request is sent
CallApi(call) ==
    /\ Len(requests) + Len(promises) < MaxApiCalls
    /\ requests' = Append(requests, call)
    /\ UNCHANGED <<promises, klineVars, indVars, patVars, wsVars, appVars>>

\* the request of the k-th call in flight settles with answer and the call
\* returns; answer is kept with the promise as history
ApiSettles(k, answer) ==
    /\ requests' = RemoveAt(requests, k)
    /\ promises' = Append(promises,
           [call |-> requests[k], answer |-> answer,
            promise |-> IF requests[k] = "getKlineData"
                        THEN KlinePromise(answer) ELSE SymbolsPromise(answer)])
    /\ UNCHANGED <<klineVars, indVars, patVars, wsVars, appVars>>

IdleApi ==
    /\ requests = <<>>
    /\ promises = <<>>

-----------------------------------------------------------------------------
(* Specifications *)

IdleInd ==
    /\ series = <<>>
    /\ withInd = <<>>
    /\ indDone = FALSE
    /\ prefixLen = NoPrefix
    /\ withIndPrefix = <<>>

\* detectAllPatterns was not called
IdlePat ==
    /\ patternData = <<>>
    /\ detections = <<>>

\* the service as constructed: no socket, no reconnect pending
IdleWs ==
    /\ ws = NoSocket
    /\ reconnectAttempts = 0
    /\ sockets = <<>>
    /\ timers = <<>>
    /\ delivered = NoHandler
    /\ scheduledInRow = 0

InitKline ==
    /\ klineData \in KlineInputs
    /\ processed = <<>>
    /\ klineDone = FALSE
    /\ IdleApi
    /\ IdleInd
    /\ IdlePat
    /\ IdleWs
    /\ IdleApp

NextKline == CallProcessKlineData

SpecKline == InitKline /\ [][NextKline]_vars

\* the latest day, counted from the epoch, on which a candle opens
MaxWeekDay == 1100

\* the candles opening at midnight, at noon and in the last minute of every
\* day up to MaxWeekDay
WeekInputs ==
    { <<ExampleCandle(day * DayLen + minute)>> :
          day \in 0..MaxWeekDay, minute \in {0, DayLen \div 2, DayLen - 1} }

\* processKlineData on one candle of any date
InitWeek ==
    /\ klineData \in WeekInputs
    /\ processed = <<>>
    /\ klineDone = FALSE
    /\ IdleApi
    /\ IdleInd
    /\ IdlePat
    /\ IdleWs
    /\ IdleApp

NextWeek == CallProcessKlineData

SpecWeek == InitWeek /\ [][NextWeek]_vars

InitInd ==
    /\ series \in SeriesInputs
    /\ withInd = <<>>
    /\ indDone = FALSE
    /\ prefixLen = NoPrefix
    /\ withIndPrefix = <<>>
    /\ IdleKline
    /\ IdleApi
    /\ IdlePat
    /\ IdleWs
    /\ IdleApp

NextInd ==
    \/ CallCalculateTechnicalIndicators
    \/ \E m \in PrefixLens(Len(series)) : CallOnPrefix(m)

SpecInd == InitInd /\ [][NextInd]_vars

InitWs == IdleWs /\ IdleKline /\ IdleApi /\ IdleInd /\ IdlePat /\ IdleApp

NextWs ==
    \/ \E symbols \in SymbolLists, h \in Handlers : ConnectWebSocket(symbols, h)
    \/ DisconnectWebSocket
    \/ \E id \in 1..Len(sockets) : SocketOpen(id)
    \/ \E id \in 1..Len(sockets), e \in {"kline", "depthUpdate"} : SocketMessage(id, e)
    \/ \E id \in 1..Len(sockets) : SocketClose(id)
    \/ \E k \in 1..Len(timers) : ReconnectTimerFires(k)

SpecWs == InitWs /\ [][NextWs]_vars

\* the number of sockets a run of the service under fair timers creates
MaxLiveSockets == 4

\* a socket can still be created for every pending timer and one more
SocketToSpare == Len(sockets) + Len(timers) < MaxLiveSockets

\* the reconnect timer of a close event of a socket with handler onMessage
\* fires
ReconnectTimerOfFires(onMessage) ==
    \E k \in 1..Len(timers) :
        timers[k].onMessage = onMessage /\ ReconnectTimerFires(k)

\* the service with as many consumer calls and close events as leave a
\* socket for every pending timer
NextWsLive ==
    \/ \E symbols \in SymbolLists, h \in Handlers :
          SocketToSpare /\ ConnectWebSocket(symbols, h)
    \/ DisconnectWebSocket
    \/ \E id \in 1..Len(sockets) : SocketOpen(id)
    \/ \E id \in 1..Len(sockets), e \in {"kline", "depthUpdate"} : SocketMessage(id, e)
    \/ \E id \in 1..Len(sockets) : SocketToSpare /\ SocketClose(id)
    \/ \E h \in Handlers : ReconnectTimerOfFires(h)

\* a callback passed to setTimeout is never cancelled (the service has no
\* clearTimeout) and runs once its delay has passed
SpecWsLive ==
    /\ InitWs
    /\ [][NextWsLive]_vars
    /\ \A h \in Handlers : WF_vars(ReconnectTimerOfFires(h))

InitPat ==
    /\ patternData \in PatternInputs
    /\ detections = <<>>
    /\ IdleKline
    /\ IdleApi
    /\ IdleInd
    /\ IdleWs
    /\ IdleApp

NextPat == CallDetectAllPatterns

SpecPat == InitPat /\ [][NextPat]_vars

\* the functions of the service and the alert evaluation side by side, each
\* on an argument of its own
InitCalls ==
    /\ klineData \in { <<>>, <<ExampleCandle(0), ExampleCandle(DayLen)>> }
    /\ processed = <<>>
    /\ klineDone = FALSE
    /\ IdleApi
    /\ series \in { SeriesOf("saw", n) : n \in {0, 19, 20, 51} }
    /\ withInd = <<>>
    /\ indDone = FALSE
    /\ prefixLen = NoPrefix
    /\ withIndPrefix = <<>>
    /\ patternData \in { PatternSeries("storm", n) : n \in {0, 36} }
    /\ detections = <<>>
    /\ IdleWs
    /\ alerts \in { <<EvalAlert(f, TRUE, NotTriggered, 1)>> :
                       f \in { Form("price", c, ThresholdOf("price")) :
                                   c \in AlertConditions } }
    /\ marketData = calculateTechnicalIndicators(
                        processKlineData(<<ExampleCandle(0), ExampleCandle(DayLen)>>))
    /\ loading = FALSE
    /\ error = NoError
    /\ pending = <<>>
    /\ fetches = <<>>
    /\ interval = AlertEffect(alerts, marketData)
    /\ clock = 1
    /\ created = 1
    /\ fires = [u \in Uids |-> 0]
    /\ phase = [u \in Uids |-> IF u = 1 THEN "new" ELSE "unused"]
    /\ retired = {}
    /\ lastEval = NoEvaluation
    /\ selected = InitialSelection

NextCalls ==
    \/ CallProcessKlineData
    \/ CallCalculateTechnicalIndicators
    \/ CallDetectAllPatterns
    \/ IntervalFires
    \/ \E message \in { KlineMessage(ExampleCandle(DayLen)) } :
          HandleWebSocketMessage(message)

SpecCalls == InitCalls /\ [][NextCalls]_vars

\* the symbols offered by the filter controls
Symbols == {"BTCUSDT", "ETHUSDT"}

\* timeframes[i].interval
Intervals == {"1d", "1w", "1M"}

\* the days between the candles of an interval (a month of 31 days)
DaysOf(timeframe) ==
    CASE timeframe = "1d" -> 1
      [] timeframe = "1w" -> 7
      [] timeframe = "1M" -> 31

\* the candles of the exchange for a request: two candles the interval
\* apart, at the prices of the symbol
KlinesOf(request) ==
    LET At(t) == IF request.symbol = "BTCUSDT"
                 THEN ExampleCandle(t)
                 ELSE Candle(t, S90, S100, S90, S100, V2M)
    IN  <<At(0), At(DaysOf(request.interval) * DayLen)>>

\* what getKlineData resolves with for a request: nothing, or its candles
ResponsesTo(request) == { <<>>, KlinesOf(request) }

\* the requests of loadMarketData that may be in flight at a time
MaxInFlight == 2

\* the k-th pending getKlineData resolves with an answer to its request
LoadResolves(k) ==
    \E klines \in ResponsesTo(fetches[k]) : FetchResolves(k, klines)

\* the REST calls of a service that a consumer has connected, or has not
InitApi ==
    /\ IdleApi
    /\ \E connected \in BOOLEAN :
          LET socket == ConnectSockets(<<>>, NoSocket, RealTimeSymbols, 1)
          IN  /\ sockets = IF connected THEN socket[1] ELSE <<>>
              /\ ws = IF connected THEN socket[2] ELSE NoSocket
    /\ reconnectAttempts = 0
    /\ timers = <<>>
    /\ delivered = NoHandler
    /\ scheduledInRow = 0
    /\ IdleKline
    /\ IdleInd
    /\ IdlePat
    /\ IdleApp

NextApi ==
    \/ \E call \in {"getKlineData", "getSymbols"} : CallApi(call)
    \/ \E k \in 1..Len(requests) :
          \E answer \in IF requests[k] = "getKlineData"
                         THEN KlineAnswers ELSE SymbolAnswers :
              ApiSettles(k, answer)

SpecApi == InitApi /\ [][NextApi]_vars

\* the component after it is mounted: the effect called loadMarketData,
\* which set loading and is waiting for getKlineData
Init ==
    /\ alerts = <<>>
    /\ marketData = <<>>
    /\ loading = TRUE
    /\ error = NoError
    /\ pending = <<>>
    /\ fetches = <<RequestOf(InitialSelection)>>
    /\ interval = <<>>
    /\ clock = 1
    /\ created = 0
    /\ fires = [u \in Uids |-> 0]
    /\ phase = [u \in Uids |-> "unused"]
    /\ retired = {}
    /\ lastEval = NoEvaluation
    /\ selected = InitialSelection
    /\ IdleKline
    /\ IdleApi
    /\ IdleInd
    /\ IdlePat
    /\ IdleWs

\* the running application; realTimeConfig.enabled stays false, so no socket
\* is ever opened and handleWebSocketMessage is never called
Next ==
    \/ \E k \in 1..Len(fetches), klines \in KlineResponses : FetchResolves(k, klines)
    \/ Retry
    \/ Commit
    \/ IntervalFires
    \/ \E form \in AppForms : HandleAlertCreate(form)
    \/ \E id \in 1..MaxClock : HandleAlertToggle(id)
    \/ \E id \in 1..MaxClock : HandleAlertDelete(id)
    \/ Tick

Spec == Init /\ [][Next]_vars

\* a step that leaves the dependencies of the alert effect as they are, so
\* that the interval set by the effect is not cleared
IntervalKept == alerts' = alerts /\ marketData' = marketData

\* setInterval: the callback of an interval that is never cleared runs again
\* and again; an interval that is cleared before its period has passed
\* never runs
IntervalFairness ==
    (<>[](ENABLED <<IntervalFires>>_vars) /\ <>[][IntervalKept]_vars)
        => []<><<IntervalFires>>_vars

\* the running application under fair rendering and fair timers: React
\* renders every queued update
SpecLive ==
    /\ Init
    /\ [][Next]_vars
    /\ WF_vars(Commit)
    /\ IntervalFairness

\* the component while the user changes symbol and timeframe; no alert is
\* created
NextLoad ==
    \/ \E k \in 1..Len(fetches) : LoadResolves(k)
    \/ \E symbol \in Symbols :
          Len(fetches) < MaxInFlight /\ HandleSymbolChange(symbol)
    \/ \E timeframe \in Intervals :
          Len(fetches) < MaxInFlight /\ HandleTimeframeChange(timeframe)
    \/ Retry
    \/ Commit

SpecLoad == Init /\ [][NextLoad]_vars

\* the evaluation of the alert rules: a list of alerts and the data loaded,
\* evaluated by the periodic check and by handleWebSocketMessage
InitEval ==
    /\ alerts \in EvalAlertLists
    /\ \E k \in EvalCandles :
          marketData = calculateTechnicalIndicators(
                           processKlineData(<<ExampleCandle(0), k>>))
    /\ loading = FALSE
    /\ error = NoError
    /\ pending = <<>>
    /\ fetches = <<>>
    /\ interval = AlertEffect(alerts, marketData)
    /\ clock = 1
    /\ created = Len(alerts)
    /\ fires = [u \in Uids |-> 0]
    /\ phase = [u \in Uids |->
          IF u > Len(alerts) THEN "unused"
          ELSE IF alerts[u].triggeredAt = NotTriggered THEN "new" ELSE "fired"]
    /\ retired = {}
    /\ lastEval = NoEvaluation
    /\ selected = InitialSelection
    /\ IdleKline
    /\ IdleApi
    /\ IdleInd
    /\ IdlePat
    /\ IdleWs

NextEval ==
    \/ IntervalFires
    \/ \E message \in EvalMessages : HandleWebSocketMessage(message)
    \/ Commit

SpecEval == InitEval /\ [][NextEval]_vars



(* Properties of processKlineData (SpecKline) *)

\* a field that parseFloat turns into a number
Numeric(s) == IsFinite(ParseFloat(s))

NumericCandle(k) ==
    Numeric(k.open) /\ Numeric(k.high) /\ Numeric(k.low) /\ Numeric(k.close)

\* a <= b for finite a, b
Leq(a, b) == a[1] * b[2] <= b[1] * a[2]

\* C1: for every candle with numeric open, high, low and close, the record
\* of processKlineData has high >= open, close, low and low <= open, close,
\* high.
C1_HighLowInvariant ==
    klineDone =>
        \A i \in 1..Len(klineData) :
            NumericCandle(klineData[i]) =>
                LET r == processed[i] IN
                /\ Leq(r.open, r.high) /\ Leq(r.close, r.high) /\ Leq(r.low, r.high)
                /\ Leq(r.low, r.open) /\ Leq(r.low, r.close)

\* x = 100 * (a - b) / c for finite a, b, c, x with c # 0, by cross
\* multiplication
IsPercentOf(x, a, b, c) ==
    x[1] * (c[1] * a[2] * b[2]) = x[2] * 100 * (a[1] * b[2] - b[1] * a[2]) * c[2]

\* C2: processKlineData maps each candle to one record in the same order,
\* with volatility = (high - low) / open * 100 and performance =
\* (close - open) / open * 100 of that candle; 100/110/90/105 gives 20 and 5,
\* and no candles give no records.
C2_MetricsPerCandle ==
    klineDone =>
        /\ Len(processed) = Len(klineData)
        /\ (klineData = <<>> => processed = <<>>)
        /\ \A i \in 1..Len(klineData) :
              LET k == klineData[i]
                  r == processed[i]
              IN  /\ r.date = k.openTime
                  /\ (NumericCandle(k) /\ r.open[1] # 0) =>
                        /\ IsFinite(r.volatility) /\ IsFinite(r.performance)
                        /\ IsPercentOf(r.volatility, r.high, r.low, r.open)
                        /\ IsPercentOf(r.performance, r.close, r.open, r.open)
                  /\ (NumericCandle(k) /\ r.open[1] = 0) =>
                        /\ ~IsFinite(r.volatility)
                        /\ ~IsFinite(r.performance)
                  /\ ~Numeric(k.open) =>
                        IsNaN(r.volatility) /\ IsNaN(r.performance)
                  /\ (k.open = S100 /\ k.high = S110 /\ k.low = S90 /\ k.close = S105) =>
                        r.volatility = <<20, 1>> /\ r.performance = <<5, 1>>

\* two candles were processed, the second being 100/110/90/105
C2_Witness ==
    /\ klineDone
    /\ Len(klineData) = 2
    /\ klineData[2].open = S100 /\ klineData[2].high = S110
    /\ klineData[2].low = S90 /\ klineData[2].close = S105
    /\ klineData[1].high = S90
    /\ processed[2].volatility = <<20, 1>>
    /\ processed[1].volatility # processed[2].volatility

-----------------------------------------------------------------------------
(* Properties of calculateTechnicalIndicators (SpecInd) *)

IndicatorFields == {"sma20", "sma50", "rsi"}

Has(r, f) == f \in DOMAIN r

\* C3: below 20 records the result is the input with no indicator field; from
\* 20 records on, at every index i, sma20 is attached iff i >= 19, sma50 iff
\* i >= 49 and rsi iff i >= 14.
C3_IndicatorGates ==
    indDone =>
        /\ Len(withInd) = Len(series)
        /\ Len(series) < 20 =>
              /\ withInd = series
              /\ \A j \in 1..Len(withInd) : DOMAIN withInd[j] \cap IndicatorFields = {}
        /\ Len(series) >= 20 =>
              \A j \in 1..Len(withInd) :
                  /\ Has(withInd[j], "sma20") <=> (j - 1 >= 19)
                  /\ Has(withInd[j], "sma50") <=> (j - 1 >= 49)
                  /\ Has(withInd[j], "rsi") <=> (j - 1 >= 14)
        /\ Len(series) = 50 =>
              /\ DOMAIN withInd[1] \cap IndicatorFields = {}
              /\ IndicatorFields \subseteq DOMAIN withInd[50]

\* a 50-record series was augmented: index 19 has sma20 and rsi but no sma50,
\* index 14 has rsi only, index 49 has all three
C3_Witness ==
    /\ indDone
    /\ Len(series) = 50
    /\ DOMAIN withInd[20] \cap IndicatorFields = {"sma20", "rsi"}
    /\ DOMAIN withInd[15] \cap IndicatorFields = {"rsi"}
    /\ DOMAIN withInd[50] \cap IndicatorFields = IndicatorFields

\* twice the close of a record, an integer for every generated series
Close2(r) == r.close[1] * (2 \div r.close[2])

\* twice the sum of close over the records at indices from..to (0-based)
RECURSIVE Close2Sum(_, _, _)
Close2Sum(data, from, to) ==
    IF from > to THEN 0
    ELSE IF from = to THEN Close2(data[from + 1])
    ELSE LET mid == (from + to) \div 2
         IN  Close2Sum(data, from, mid) + Close2Sum(data, mid + 1, to)

\* x = total2 / (2 * w) by cross multiplication
IsMeanOf(x, total2, w) == x[2] # 0 /\ x[1] * 2 * w = x[2] * total2

\* C10: for a series of 20 or more records, sma20 at i >= 19 is the mean of
\* close over indices i-19..i and sma50 at i >= 49 is the mean of close over
\* indices i-49..i.
C10_SmaIsWindowMean ==
    (indDone /\ Len(series) >= 20) =>
        \A i \in 0..(Len(series) - 1) :
            /\ i >= 19 => IsMeanOf(withInd[i + 1].sma20, Close2Sum(series, i - 19, i), 20)
            /\ i >= 49 => IsMeanOf(withInd[i + 1].sma50, Close2Sum(series, i - 49, i), 50)

\* a rising series of 51 records was augmented; the last sma20 and sma50
\* differ from the ones before
C10_Witness ==
    /\ indDone
    /\ Len(series) = 51
    /\ withInd[51].sma20 # withInd[50].sma20
    /\ withInd[51].sma50 # withInd[50].sma50
    /\ withInd[51].sma50 # withInd[51].sma20

-----------------------------------------------------------------------------
(* Properties of the WebSocket management (SpecWs) *)

\* the sockets that are connecting or open and that the service has not closed
ActiveSockets ==
    {id \in 1..Len(sockets) : sockets[id].state \in {"connecting", "open"}}

\* C8: at every moment at most one WebSocket created by the service is
\* active, and it is the one this.ws refers to.
C8_AtMostOneActiveSocket ==
    /\ Cardinality(ActiveSockets) <= 1
    /\ ActiveSockets \subseteq {ws}

\* a connect tore down a live socket whose close event is still to come, a
\* reconnect timer is pending, and one socket is active
C8_Witness ==
    /\ Len(sockets) >= 3
    /\ Cardinality(ActiveSockets) = 1
    /\ timers # <<>>
    /\ \E id \in 1..Len(sockets) : sockets[id].state = "closing"

\* C9: reconnectAttempts stays within 0..5; a close event schedules a
\* reconnect only while reconnectAttempts < 5, so at most 5 reconnects are
\* scheduled in a row without an open; an open resets the counter to 0; the
\* delay of the k-th consecutive reconnect is 1000 * k.
C9_BoundedReconnect ==
    /\ [](/\ reconnectAttempts \in 0..5
          /\ scheduledInRow <= 5
          /\ \A k \in 1..Len(timers) :
                /\ timers[k].nth \in 1..5
                /\ timers[k].delay = 1000 * timers[k].nth)
    /\ [][Len(timers') > Len(timers) =>
            /\ reconnectAttempts < 5
            /\ reconnectAttempts' = reconnectAttempts + 1]_vars
    /\ [][(\E id \in 1..Len(sockets) :
              sockets[id].state = "connecting" /\ sockets'[id].state = "open")
            => reconnectAttempts' = 0]_vars

\* five reconnects were scheduled in a row and made, and the close of the
\* sixth socket scheduled nothing
C9_Witness ==
    /\ reconnectAttempts = 5
    /\ scheduledInRow = 5
    /\ timers = <<>>
    /\ Len(sockets) >= 6
    /\ \A id \in 1..Len(sockets) : sockets[id].state = "closed"

-----------------------------------------------------------------------------
(* Properties of the alert evaluation (SpecEval, Spec) *)

\* value > threshold, value < threshold and |value - threshold| < 0.01 for a
\* finite threshold, by cross multiplication; no comparison holds of NaN
Above(v, t) == ~IsNaN(v) /\ ~Leq(v, t)

Below(v, t) == ~IsNaN(v) /\ ~Leq(t, v)

Near(v, t) ==
    IsFinite(v) /\ 100 * AbsI(v[1] * t[2] - t[1] * v[2]) < v[2] * t[2]

ConditionHolds(a, v) ==
    /\ IsFinite(a.threshold)
    /\ CASE a.condition = "above" -> Above(v, a.threshold)
         [] a.condition = "below" -> Below(v, a.threshold)
         [] a.condition = "equals" -> Near(v, a.threshold)

\* v is 100 * (a - b) / c as JavaScript computes it
IsPercent(v, a, b, c) ==
    IF IsFinite(a) /\ IsFinite(b) /\ IsFinite(c) /\ c[1] # 0
    THEN IsFinite(v) /\ IsPercentOf(v, a, b, c)
    ELSE ~IsFinite(v)

\* v is the metric of the given type of the evaluated record r: a field of
\* the record of marketData, or computed from the fields of the message
IsMetricOf(v, type, r, kind) ==
    CASE type = "volume" -> v = r.volume
      [] type = "price" -> v = r.close
      [] type = "volatility" ->
            IF kind = "check" THEN v = r.volatility
            ELSE IsPercent(v, r.high, r.low, r.open)
      [] type = "performance" ->
            IF kind = "check" THEN v = r.performance
            ELSE IsPercent(v, r.close, r.open, r.open)

\* C4: the periodic check and the message handler fire an active rule that
\* has no triggeredAt iff its metric of the evaluated record is above, below
\* or within 0.01 of the threshold, as its condition says; a value equal to
\* the threshold fires no 'above' and no 'below' rule, and 'above' 5 does
\* not fire at 5 and fires at 5.01.
C4_FiresIffConditionHolds ==
    lastEval.kind # "none" =>
        /\ lastEval.kind = "check" => lastEval.record = marketData[Len(marketData)]
        /\ \A i \in 1..Len(lastEval.alerts) :
              LET a == lastEval.alerts[i]
                  v == lastEval.values[i]
              IN  /\ IsMetricOf(v, a.type, lastEval.record, lastEval.kind)
                  /\ (a.isActive /\ a.triggeredAt = NotTriggered) =>
                        (i \in lastEval.fired <=> ConditionHolds(a, v))
                  /\ (a.condition \in {"above", "below"} /\ v = a.threshold) =>
                        i \notin lastEval.fired
                  /\ (a.condition = "above" /\ a.threshold = <<5, 1>>
                        /\ a.isActive /\ a.triggeredAt = NotTriggered) =>
                        /\ v = <<5, 1>> => i \notin lastEval.fired
                        /\ v = <<501, 100>> => i \in lastEval.fired

\* the message handler fired an 'equals' rule at a value that is not the
\* threshold
C4_Witness ==
    /\ lastEval.kind = "message"
    /\ \E i \in lastEval.fired :
          /\ lastEval.alerts[i].condition = "equals"
          /\ lastEval.values[i] # lastEval.alerts[i].threshold

\* C5: an evaluation fires an alert only if the alert is active and has no
\* triggeredAt in the list the evaluation reads.
C5_FiresOnlyActiveUntriggered ==
    \A i \in lastEval.fired :
        /\ lastEval.alerts[i].isActive
        /\ lastEval.alerts[i].triggeredAt = NotTriggered

\* the periodic check passed over an active alert that has a triggeredAt and
\* over an inactive alert, both with their condition holding
C5_Witness ==
    /\ lastEval.kind = "check"
    /\ \E i, j \in 1..Len(lastEval.alerts) :
          /\ lastEval.alerts[i].isActive
          /\ lastEval.alerts[i].triggeredAt # NotTriggered
          /\ ConditionHolds(lastEval.alerts[i], lastEval.values[i])
          /\ ~lastEval.alerts[j].isActive
          /\ lastEval.alerts[j].triggeredAt = NotTriggered
          /\ ConditionHolds(lastEval.alerts[j], lastEval.values[j])
          /\ lastEval.fired = {}

\* C6: triggerAlert is called at most once for an alert between its creation
\* or toggle and its next toggle or deletion.
C6_AtMostOneTriggerPerActivation == \A u \in Uids : fires[u] <= 1

\* the alerts an evaluation read that had fired and were then toggled to
\* inactive and back to active, and those created equivalent to a rule that
\* was deleted after it had fired
Cycled(i) == lastEval.phase[lastEval.alerts[i].uid] \in {"firedCycled", "passedOver"}

Recreated(i) == lastEval.phase[lastEval.alerts[i].uid] = "recreated"

\* C7 as stated: a rule that fired and was toggled to inactive and back, or
\* deleted and created again, fires at the next evaluation in which its
\* condition holds.
C7_ToggleOrRecreateRearms ==
    \A i \in 1..Len(lastEval.alerts) :
        (/\ Cycled(i) \/ Recreated(i)
         /\ lastEval.alerts[i].isActive
         /\ ConditionHolds(lastEval.alerts[i], lastEval.values[i]))
        => i \in lastEval.fired

\* C7: a rule that fired and was toggled to inactive and back keeps its
\* triggeredAt and is fired by no later evaluation; a rule created equivalent
\* to a deleted one is fired by an evaluation that reads it active and
\* without triggeredAt while its condition holds.
C7_OnlyRecreateRearms ==
    \A i \in 1..Len(lastEval.alerts) :
        /\ Cycled(i) =>
              /\ lastEval.alerts[i].triggeredAt # NotTriggered
              /\ i \notin lastEval.fired
        /\ (/\ Recreated(i)
            /\ lastEval.alerts[i].isActive
            /\ lastEval.alerts[i].triggeredAt = NotTriggered
            /\ ConditionHolds(lastEval.alerts[i], lastEval.values[i]))
           => i \in lastEval.fired

\* a rule that had fired was toggled to inactive and back and passed over by
\* a check, then deleted, and the equivalent rule created after it is fired
\* by a check of the same data
C7_Witness ==
    /\ lastEval.kind = "check"
    /\ \E j \in lastEval.fired :
          /\ Recreated(j)
          /\ \E u \in Uids :
                /\ u < lastEval.alerts[j].uid
                /\ lastEval.phase[u] = "passedOver"

-----------------------------------------------------------------------------
(* Properties of the indicators: RSI range and dependence on the prefix *)

\* twice the rise (up) or the fall (down) of the close from the record at
\* index k - 1 to the record at index k (0-based), an integer
Rise2(data, k, up) ==
    LET delta == Close2(data[k + 1]) - Close2(data[k])
    IN  IF up THEN (IF delta > 0 THEN delta ELSE 0)
        ELSE (IF delta < 0 THEN -delta ELSE 0)

\* twice the sum of the rises or of the falls over the 14 deltas of the
\* window that ends at index i
RECURSIVE Rises2(_, _, _, _)
Rises2(data, i, n, up) ==
    IF n = 0 THEN 0
    ELSE Rises2(data, i, n - 1, up) + Rise2(data, i - 14 + n, up)

\* C11: an attached rsi is 100 - 100 / (1 + avgGain / avgLoss) over the 14
\* deltas of the trailing window, that is 100 * gains / (gains + losses): a
\* number within [0, 100] when some close of the window differs from the
\* one before it (100 when none falls), and NaN when all closes are equal.
C11_RsiOfWindow ==
    (indDone /\ Len(series) >= 20) =>
        \A j \in 15..Len(withInd) :
            LET gains == Rises2(series, j - 1, 14, TRUE)
                losses == Rises2(series, j - 1, 14, FALSE)
                rsi == withInd[j].rsi
            IN  /\ (gains + losses = 0) <=> IsNaN(rsi)
                /\ (gains + losses # 0) =>
                      /\ IsFinite(rsi)
                      /\ rsi[1] * (gains + losses) = 100 * gains * rsi[2]
                      /\ Leq(FromInt(0), rsi) /\ Leq(rsi, FromInt(100))
                /\ (losses = 0 /\ gains # 0) => rsi = FromInt(100)

\* a series of equal closes and more than 20 records was augmented
C11_Witness ==
    /\ indDone
    /\ Len(series) > 20
    /\ \A j \in 1..Len(series) : series[j].close = series[1].close
    /\ IsNaN(withInd[15].rsi)

\* C11 as stated: every rsi that calculateTechnicalIndicators attaches is a
\* number within [0, 100], also for windows with no falling close and for
\* windows whose closes are all equal.
C11_RsiWithinBounds ==
    indDone =>
        \A j \in 1..Len(withInd) :
            Has(withInd[j], "rsi") =>
                /\ IsFinite(withInd[j].rsi)
                /\ Leq(FromInt(0), withInd[j].rsi)
                /\ Leq(withInd[j].rsi, FromInt(100))

\* the indicator fields of the record at position j are the same in a and b
SameIndicators(a, b, j) ==
    \A f \in IndicatorFields :
        /\ Has(a[j], f) <=> Has(b[j], f)
        /\ Has(a[j], f) => a[j][f] = b[j][f]

\* C12 as stated: at every index of the shorter series, the indicators are
\* the same in the result for the shorter series and in the result for the
\* series with records appended.
C12_PrefixFunction ==
    (indDone /\ prefixLen # NoPrefix) =>
        \A j \in 1..prefixLen : SameIndicators(withIndPrefix, withInd, j)

\* C12: when the shorter series has at least 20 records, the indicators at
\* each of its indices are the same in both results; a shorter series of
\* fewer than 20 records gets no indicator at all, whatever the longer one
\* gets at these indices.
C12_PrefixFunctionFromTwenty ==
    (indDone /\ prefixLen # NoPrefix) =>
        /\ prefixLen >= 20 =>
              \A j \in 1..prefixLen : SameIndicators(withIndPrefix, withInd, j)
        /\ prefixLen < 20 =>
              \A j \in 1..prefixLen :
                  DOMAIN withIndPrefix[j] \cap IndicatorFields = {}

\* a series of 50 records with changing closes was augmented, and again
\* after a record was appended
C12_Witness ==
    /\ indDone
    /\ prefixLen = 50
    /\ Len(series) = 51
    /\ Has(withInd[50], "sma50")
    /\ series[51].close # series[1].close


-----------------------------------------------------------------------------
(* Properties of the pattern detection (SpecPat) *)

Categories == {"seasonal", "cyclical", "anomalies", "trends"}

\* the weekday a seasonal pattern is about, as its name tells it
DayNameOf(pattern) == pattern.name[2]

\* the number of records of data that fall on weekday w
RecordsOn(data, w) == Cardinality({i \in 1..Len(data) : data[i].dayOfWeek = w})

Half == <<1, 2>>

PositionsOn(data, w) == {i \in 1..Len(data) : data[i].dayOfWeek = w}

FirstOn(data, w) == CHOOSE i \in PositionsOn(data, w) : \A j \in PositionsOn(data, w) : i <= j

LastOn(data, w) == CHOOSE i \in PositionsOn(data, w) : \A j \in PositionsOn(data, w) : j <= i

\* the mean over the records of weekday w of the values vs has at them
MeanOn(data, w, vs) ==
    LET at == [k \in 1..Len(data) |-> IF k \in PositionsOn(data, w) THEN vs[k] ELSE FromInt(0)]
    IN  NumDiv(NumSumRange(at, 1, Len(at)), FromInt(RecordsOn(data, w)))

\* weekday w has at least 5 records and a mean volatility > 1.5 or < 0.3
Qualifies(data, w) ==
    /\ RecordsOn(data, w) >= 5
    /\ \/ NumGt(MeanOn(data, w, Volatilities(data)), <<3, 2>>)
       \/ NumLt(MeanOn(data, w, Volatilities(data)), <<3, 10>>)

\* the patterns of ps that are about weekday w
PatternsOn(ps, w) == {k \in 1..Len(ps) : DayNameOf(ps[k]) = GetDayName(w)}

Quarters(x) == (x[1] * 4) \div x[2]

\* the sum of the integers qs
IntSum(qs) == NumSumRange([k \in 1..Len(qs) |-> FromInt(qs[k])], 1, Len(qs))[1]

\* the mean of values that are whole numbers of quarters
QuarterMean(vs) ==
    Norm(IntSum([k \in 1..Len(vs) |-> Quarters(vs[k])]), 4 * Len(vs))

\* the population variance of values that are whole numbers of quarters: with
\* q the values in quarters, (n * sum(q^2) - sum(q)^2) / (16 * n^2)
PopulationVariance(vs) ==
    LET n == Len(vs)
        total == IntSum([k \in 1..n |-> Quarters(vs[k])])
        squares == IntSum([k \in 1..n |-> Quarters(vs[k]) * Quarters(vs[k])])
    IN  Norm(n * squares - total * total, 16 * n * n)

\* C15: the cyclical list of a call has one pattern when the series has at
\* least 30 records and the population variance of its volatility is > 0.5,
\* and none otherwise; the pattern spans the first to the last record, has
\* confidence min(variance, 1), the mean volatility of the series as
\* volatility and 0 as performance and volume.
C15_CyclicalPattern ==
    \A c \in 1..Len(detections) :
        LET ps == detections[c].cyclical
            n == Len(patternData)
            variance == PopulationVariance(Volatilities(patternData))
        IN  IF n >= 30 /\ NumGt(variance, Half)
            THEN /\ Len(ps) = 1
                 /\ ps[1].type = "cyclical"
                 /\ ps[1].startDate = patternData[1].date
                 /\ ps[1].endDate = patternData[n].date
                 /\ ps[1].confidence
                      = (IF NumLt(FromInt(1), variance) THEN FromInt(1) ELSE variance)
                 /\ ps[1].metrics.volatility = QuarterMean(Volatilities(patternData))
                 /\ ps[1].metrics.performance = FromInt(0)
                 /\ ps[1].metrics.volume = FromInt(0)
            ELSE ps = <<>>

\* a call on 30 records or more returned a cycle of a confidence below 1
C15_Witness ==
    /\ Len(detections) > 0
    /\ Len(patternData) >= 30
    /\ Len(detections[1].cyclical) = 1
    /\ NumLt(detections[1].cyclical[1].confidence, FromInt(1))


\* of values that are whole numbers of quarters: their number n, and in
\* quarters their sum and n * n times their population variance
Moments(vs) ==
    LET n == Len(vs)
        total == IntSum([k \in 1..n |-> Quarters(vs[k])])
        squares == IntSum([k \in 1..n |-> Quarters(vs[k]) * Quarters(vs[k])])
    IN  [n |-> n, total |-> total, spread |-> n * squares - total * total]

\* n times the distance of value from the mean, in quarters
Distance(value, m) == m.n * Quarters(value) - m.total

\* value > mean + 2 * stddev, decided without a root: the distance from the
\* mean is positive and its square exceeds 4 times the variance
AboveTwoSigma(value, m) ==
    /\ Distance(value, m) > 0
    /\ Distance(value, m) * Distance(value, m) > 4 * m.spread

\* value = mean + 3 * stddev
AtThreeSigma(value, m) ==
    /\ Distance(value, m) >= 0
    /\ Distance(value, m) * Distance(value, m) = 9 * m.spread

\* the spikes of data in the order of the claim: by record, volatility first
ExpectedSpikes(data) ==
    LET candidates == [k \in 1..(2 * Len(data)) |->
                          <<(k + 1) \div 2,
                            IF k % 2 = 1 THEN "Volatility Spike" ELSE "Volume Spike">>]
        ofVolatility == Moments(Volatilities(data))
        ofVolume == Moments(Volumes(data))
        IsSpike(s) ==
            IF s[2] = "Volatility Spike"
            THEN AboveTwoSigma(data[s[1]].volatility, ofVolatility)
            ELSE AboveTwoSigma(data[s[1]].volume, ofVolume)
    IN  SelectSeq(candidates, IsSpike)

\* the anomaly list ps is the list of the spikes of data, each spanning its
\* single day, with a confidence that is a number not above 1
ListsTheSpikes(ps, data) ==
    LET spikes == ExpectedSpikes(data)
    IN  /\ Len(ps) = Len(spikes)
        /\ \A k \in 1..Len(ps) :
              /\ ps[k].type = "anomaly"
              /\ ps[k].name = spikes[k][2]
              /\ ps[k].startDate = data[spikes[k][1]].date
              /\ ps[k].endDate = data[spikes[k][1]].date
              /\ ps[k].metrics.volatility = data[spikes[k][1]].volatility
              /\ ps[k].metrics.volume = data[spikes[k][1]].volume
              /\ ~IsNaN(ps[k].confidence)
              /\ ~NumGt(ps[k].confidence, FromInt(1))

\* record i of data has a volatility spike in ps
HasVolatilitySpike(ps, data, i) ==
    \E k \in 1..Len(ps) :
        /\ ps[k].name = "Volatility Spike"
        /\ ps[k].startDate = data[i].date
        /\ ps[k].metrics = [volatility |-> data[i].volatility,
                            performance |-> data[i].performance,
                            volume |-> data[i].volume]

\* C16 as stated: for a series of at least 10 records the anomaly list of a
\* call holds a volatility spike for exactly the records whose volatility is
\* strictly above mean + 2 * stddev and a volume spike for exactly those whose
\* volume is, in series order and volatility first, each spanning its day and
\* with confidence <= 1; and every record whose volatility is
\* mean + 3 * stddev has a volatility spike in the list.
C16_AnomalySpikes ==
    \A c \in 1..Len(detections) :
        Len(patternData) >= 10 =>
            /\ ListsTheSpikes(detections[c].anomalies, patternData)
            /\ LET m == Moments(Volatilities(patternData))
               IN  \A i \in 1..Len(patternData) :
                       AtThreeSigma(patternData[i].volatility, m)
                           => HasVolatilitySpike(detections[c].anomalies, patternData, i)

\* C16, amended: the same, where a record whose volatility is
\* mean + 3 * stddev is required in the list only if stddev > 0 (in a series
\* of equal volatilities every record is at mean + 3 * stddev = mean, the
\* threshold, and none is strictly above it).
C16_AnomalySpikesOfVaryingSeries ==
    \A c \in 1..Len(detections) :
        Len(patternData) >= 10 =>
            /\ ListsTheSpikes(detections[c].anomalies, patternData)
            /\ LET m == Moments(Volatilities(patternData))
               IN  \A i \in 1..Len(patternData) :
                       (AtThreeSigma(patternData[i].volatility, m)
                        /\ m.spread > 0)
                           => HasVolatilitySpike(detections[c].anomalies, patternData, i)

\* a call on 10 records or more of which one has a volatility of
\* mean + 3 * stddev, stddev > 0, and exceeds the volume threshold as well:
\* the list holds its volatility spike and next its volume spike
C16_Witness ==
    /\ Len(detections) > 0
    /\ Len(patternData) >= 10
    /\ \E i \in 1..Len(patternData) :
          /\ AtThreeSigma(patternData[i].volatility, Moments(Volatilities(patternData)))
          /\ Moments(Volatilities(patternData)).spread > 0
          /\ AboveTwoSigma(patternData[i].volume, Moments(Volumes(patternData)))
          /\ \E k \in 1..(Len(detections[1].anomalies) - 1) :
                /\ detections[1].anomalies[k].name = "Volatility Spike"
                /\ detections[1].anomalies[k + 1].name = "Volume Spike"
                /\ detections[1].anomalies[k].startDate = patternData[i].date
                /\ detections[1].anomalies[k + 1].startDate = patternData[i].date


\* (lastClose - firstClose) / firstClose * 100
PriceChangeOf(data) ==
    NumMul(NumDiv(NumSub(data[Len(data)].close, data[1].close), data[1].close),
           FromInt(100))

\* min(|priceChange| / 20, 1)
Strength(priceChange) ==
    IF IsNaN(priceChange) THEN NaN
    ELSE IF NumLt(FromInt(20), NumAbs(priceChange)) THEN FromInt(1)
    ELSE NumDiv(NumAbs(priceChange), FromInt(20))

WithinUnit(x) ==
    /\ ~IsNaN(x)
    /\ ~NumLt(x, FromInt(0))
    /\ ~NumGt(x, FromInt(1))

\* C18: every pattern of every list a call returns has a confidence within
\* [0, 1].
C18_ConfidenceWithinUnit ==
    \A c \in 1..Len(detections) :
        \A f \in Categories :
            \A k \in 1..Len(detections[c][f]) :
                WithinUnit(detections[c][f][k].confidence)


\* the ids of the patterns of the four lists of a result, category by category
IdsOf(d) ==
    LET all == d.seasonal \o d.cyclical \o d.anomalies \o d.trends
    IN  [k \in 1..Len(all) |-> all[k].id]

\* C19: the ids of the patterns one call returns are pairwise distinct, within
\* a list and across the four lists.
C19_IdsDistinct ==
    \A c \in 1..Len(detections) :
        LET ids == IdsOf(detections[c])
        IN  \A j, k \in 1..Len(ids) : j # k => ids[j] # ids[k]

\* a call returned two anomalies of the same kind for two records of the same
\* date, and patterns in more than one list
C19_Witness ==
    /\ Len(detections) > 0
    /\ \E j, k \in 1..Len(detections[1].anomalies) :
          /\ j # k
          /\ detections[1].anomalies[j].name = detections[1].anomalies[k].name
          /\ detections[1].anomalies[j].startDate = detections[1].anomalies[k].startDate
    /\ detections[1].seasonal # <<>>


\* the confidence values of a list of patterns, in order
Confidences(ps) == [k \in 1..Len(ps) |-> ps[k].confidence]

-----------------------------------------------------------------------------
(* Properties of the calls side by side (SpecCalls) *)

-----------------------------------------------------------------------------
(* Properties of the alert list of the running component (Spec) *)

\* the serial numbers of the alerts of list, in list order
UidSeq(list) == [i \in 1..Len(list) |-> list[i].uid]

UidSet(list) == { list[i].uid : i \in 1..Len(list) }

\* the alert of list with serial number u
AlertOf(list, u) == list[CHOOSE i \in 1..Len(list) : list[i].uid = u]

\* what neither a toggle nor a trigger changes
Settings(a) ==
    [id |-> a.id, createdAt |-> a.createdAt, type |-> a.type,
     condition |-> a.condition, threshold |-> a.threshold]

\* the alerts of list that are in keep, in list order
Restrict(list, keep) ==
    LET Kept(a) == a.uid \in keep
    IN  UidSeq(SelectSeq(list, Kept))

\* C22: in every step, an alert joins the list only by handleAlertCreate, one
\* at a time, at the end, active and without triggeredAt; an alert leaves the
\* list only by handleAlertDelete of its id, which removes no alert of another
\* id; isActive of an alert changes only by handleAlertToggle of its id,
\* which flips it; triggeredAt changes only by a triggerAlert for its id,
\* which sets it; nothing else of an alert changes and the order is kept.
C22_AlertListChanges ==
    [][LET before == UidSet(alerts)
           after == UidSet(alerts')
           stay == before \cap after
       IN  /\ Restrict(alerts, stay) = Restrict(alerts', stay)
           /\ \A u \in after \ before :
                 /\ \E form \in AppForms : HandleAlertCreate(form)
                 /\ after \ before = {u}
                 /\ alerts'[Len(alerts')].uid = u
                 /\ AlertOf(alerts', u).isActive
                 /\ AlertOf(alerts', u).triggeredAt = NotTriggered
           /\ \A u \in before \ after :
                 \E id \in 1..MaxClock :
                     /\ HandleAlertDelete(id)
                     /\ AlertOf(alerts, u).id = id
                     /\ \A v \in before : AlertOf(alerts, v).id # id => v \in after
           /\ \A u \in stay :
                 LET a == AlertOf(alerts, u)
                     b == AlertOf(alerts', u)
                 IN  /\ Settings(b) = Settings(a)
                     /\ b.isActive # a.isActive =>
                            \E id \in 1..MaxClock : HandleAlertToggle(id) /\ a.id = id
                     /\ (\E id \in 1..MaxClock : HandleAlertToggle(id) /\ a.id = id)
                            => b.isActive # a.isActive
                     /\ b.triggeredAt # a.triggeredAt =>
                            /\ b.triggeredAt # NotTriggered
                            /\ \E k \in 1..Len(pending) :
                                  pending[k].op = "trigger" /\ pending[k].id = a.id]_vars

\* an alert was created, fired and deleted, another was created and switched
\* off
C22_Witness ==
    /\ retired # {}
    /\ \E i \in 1..Len(alerts) : ~alerts[i].isActive


\* C23: the alerts of the list have pairwise distinct ids.
C23_AlertIdsDistinct ==
    \A i, j \in 1..Len(alerts) : i # j => alerts[i].id # alerts[j].id



-----------------------------------------------------------------------------
(* Properties of the REST calls (SpecApi) *)

-----------------------------------------------------------------------------
(* Properties of loading in the running component (Spec) *)

\* C25: when the kline fetch fails or returns no candles, the application
\* falls back to mock data: once no load is in progress (no request in
\* flight, no update queued, the loading flag off), the market data shown is
\* a non-empty series.
C25_MockDataFallback ==
    (fetches = <<>> /\ pending = <<>> /\ ~loading) => Len(marketData) > 0



-----------------------------------------------------------------------------
(* Properties of the week number (SpecWeek) *)

\* the day of the year, from 0, of the candle that was processed
DaysSinceJan1 == (klineData[1].openTime - StartOfYear(klineData[1].openTime)) \div DayLen

\* the weekday of 1 January of the year of the candle that was processed
Jan1DayOfWeek == GetDay(StartOfYear(klineData[1].openTime))

\* C26: for every date, the weekOfYear of the record is an integer in 1..53,
\* equal to ceil((daysSinceJan1 + Jan1DayOfWeek + 1) / 7), and it is 1 on
\* 1 January.
C26_WeekOfYear ==
    klineDone =>
        /\ processed[1].weekOfYear \in 1..53
        /\ \E q \in 1..54 :
              /\ processed[1].weekOfYear = q
              /\ 7 * (q - 1) < DaysSinceJan1 + Jan1DayOfWeek + 1
              /\ DaysSinceJan1 + Jan1DayOfWeek + 1 <= 7 * q
        /\ DaysSinceJan1 = 0 => processed[1].weekOfYear = 1



-----------------------------------------------------------------------------
(* Properties of disconnecting (SpecWs) *)

\* C27: after disconnectWebSocket() the service stays disconnected until a
\* consumer calls connectWebSocket() again. While this.ws is null, the only
\* step that creates a WebSocket is a call of connectWebSocket by a consumer:
\* neither the close event of the torn-down socket nor a reconnect timer
\* re-opens a connection.
C27_StaysDisconnected ==
    [][(ws = NoSocket /\ Len(sockets') > Len(sockets)) =>
           \E symbols \in SymbolLists, h \in Handlers : ConnectWebSocket(symbols, h)]_vars



-----------------------------------------------------------------------------
(* Properties of reconnecting under fair timers (SpecWsLive) *)

\* a close event below the retry cap has scheduled a reconnect for symbols
\* and onMessage that has not run yet
ReconnectPending(symbols, onMessage) ==
    \E k \in 1..Len(timers) :
        timers[k].symbols = symbols /\ timers[k].onMessage = onMessage

\* C28: automatic reconnection. When a connection closes while fewer than 5
\* consecutive reconnects have been made, the service eventually creates a
\* new connection for the same symbols with the same message handler; and a
\* kline message of an open connection is delivered to the handler the
\* connection was created with.
C28_AutomaticReconnection ==
    /\ \A symbols \in SymbolLists, h \in Handlers, n \in 0..MaxLiveSockets :
          (ReconnectPending(symbols, h) /\ Len(sockets) = n)
              ~> (\E id \in (n + 1)..Len(sockets) :
                     /\ sockets[id].symbols = symbols
                     /\ sockets[id].onMessage = h)
    /\ [][\A id \in 1..Len(sockets) :
              SocketMessage(id, "kline") =>
                  sockets[id].state = "open" /\ delivered' = sockets[id].onMessage]_vars

\* a connection was closed, the connection that replaced it is the current
\* one and open, no reconnect is pending and its handler got a kline message
C28_Witness ==
    /\ timers = <<>>
    /\ ws # NoSocket
    /\ sockets[ws].state = "open"
    /\ delivered = sockets[ws].onMessage
    /\ \E id \in 1..(ws - 1) : sockets[id] = ClosedSocket
    /\ reconnectAttempts = 0
    /\ scheduledInRow = 0



-----------------------------------------------------------------------------
(* Properties of loading while the selection changes (SpecLoad) *)

\* what loadMarketData stores for the candles of the current selection
DataOfSelection ==
    calculateTechnicalIndicators(processKlineData(KlinesOf(RequestOf(selected))))

\* C29: once all fetches have completed (no request in flight, no update
\* queued) and data is shown without an error, marketData holds the data of
\* the symbol and timeframe selected last, whatever order the responses
\* arrived in.
C29_LatestSelectionShown ==
    (fetches = <<>> /\ pending = <<>> /\ error = NoError /\ Len(marketData) > 0)
        => marketData = DataOfSelection



-----------------------------------------------------------------------------
(* Properties of the periodic check under fair timers (SpecLive) *)

\* the alert created as the uid-th is in the list, active, without
\* triggeredAt, and its condition is satisfied by the latest record
Armed(uid) ==
    \E i \in FiredOnCheck(alerts, marketData) : alerts[i].uid = uid

\* C30: an active alert without triggeredAt whose condition the latest
\* record satisfies is eventually triggered by the periodic check (or
\* switched off or deleted by the user), also when other alerts are created,
\* toggled, deleted or triggered meanwhile and restart the check timer.
C30_CheckEventuallyTriggers ==
    \A uid \in Uids : Armed(uid) ~> ~Armed(uid)

=============================================================================
